---- MODULE Spec2Model ----
(***************************************************************************)
(* Model of the autocontrol task scheduler (src/autocontrol/atc.py), its   *)
(* task stores (src/autocontrol/task_container.py), the device base class  *)
(* (src/autocontrol/device.py) and the background driver loop              *)
(* (src/autocontrol/server.py).                                            *)
(*                                                                         *)
(* Optional values: an absent sample_id, sample_number, priority, task id  *)
(* or dependency is 0; an absent channel is NoChannel (-1), since 0 is a   *)
(* valid channel.                                                          *)
(***************************************************************************)
EXTENDS Integers, Sequences, FiniteSets, TLC

VARIABLES
    queue,                \* autocontrol.queue: the scheduled store (rows in insertion order)
    active_tasks,         \* autocontrol.active_tasks
    sample_history,       \* autocontrol.sample_history
    sample_id_to_number,  \* dict sample id -> sample number, in insertion order
    devices,              \* device registry, with the state of each device object
    channel_po,           \* channel physical occupancy
    paused,               \* run control
    scn,                  \* which producer script of the catalogue is being played
    submitted,            \* ids of the script's tasks handed to queue_put, in that order
    clock,                \* time.time() as seen by queue_put, in ticks
    phase,                \* position of the background driver loop
    drv,                  \* locals of the driver thread inside a handler
    resets,               \* number of reset()/restart() calls so far
    startups,             \* number of process restarts so far
    ret                   \* what the last operation did (its return value and locals)

vars == <<queue, active_tasks, sample_history, sample_id_to_number, devices,
          channel_po, paused, scn, submitted, clock, phase, drv, resets,
          startups, ret>>

----------------------------------------------------------------------------
(* Bounds of the model *)

MaxResets == 1
MaxStartups == 1
MaxPuts == 8

(* Program constants *)

\* p1 = time.time() / 10^ceil(log10(time.time())) < 1: the submission time is
\* a fraction below one sample number.  Priorities are kept as integers in
\* units of 1/TimeScale.
TimeScale == 100

NoChannel == -1

DeviceNames == {"lh1", "qcmd1"}

----------------------------------------------------------------------------
(* task_struct.py *)

TaskData(device, channel) ==
    [device |-> device, channel |-> channel, non_channel_storage |-> FALSE,
     device_type |-> "", number_of_channels |-> 0, simulated |-> FALSE,
     sample_mixing |-> TRUE,
     \* md['execution_response'] holds 'Success.'
     done |-> FALSE,
     \* class of md['submission_response']
     response |-> ""]

InitData(device, device_type, noc, simulated, sample_mixing) ==
    [TaskData(device, NoChannel) EXCEPT !.device_type = device_type,
                                        !.number_of_channels = noc,
                                        !.simulated = simulated,
                                        !.sample_mixing = sample_mixing]

Task(id, task_type, sample_id, sample_number, tasks) ==
    [id |-> id, task_type |-> task_type, sample_id |-> sample_id,
     sample_number |-> sample_number, priority |-> 0, tasks |-> tasks,
     dependency_id |-> 0, dependency_sample_number |-> 0,
     task_history |-> <<>>,
     \* classes of md['submission_response'], md['submission_device_response']
     \* and md['execution_response']
     response |-> "", device_response |-> "", execution_response |-> ""]

NoTask == Task(0, "none", 0, 0, <<>>)

----------------------------------------------------------------------------
(* task_container.py: a store is the sequence of its rows (serialized tasks) *)
(* in rowid order.                                                          *)

put(store, task) == Append(store, task)

\* a deletion that takes the oldest row whatever its id
remove_oldest(store, task_id) == Tail(store)

remove(store, task_id) == SelectSeq(store, LAMBDA t : t.id # task_id)

Rows(store) == {store[k] : k \in 1..Len(store)}

get_task_by_id(store, task_id) ==
    LET hits == SelectSeq(store, LAMBDA t : t.id = task_id)
    IN  IF hits = <<>> THEN NoTask ELSE hits[1]

\* the list of tasks with this sample number; the empty list stands for None
get_task_by_sample_number(store, sample_number) ==
    SelectSeq(store, LAMBDA t : t.sample_number = sample_number)

\* SELECT MIN(sample_number); 0 stands for None (empty table)
get_lowest_sample_number(store) ==
    IF store = <<>> THEN 0
    ELSE CHOOSE n \in {t.sample_number : t \in Rows(store)} :
            \A t \in Rows(store) : n <= t.sample_number

\* find_channels(device_name=...): channels named by sub-tasks on this device
find_channels(store, device_name) ==
    UNION {{t.tasks[k].channel : k \in {j \in 1..Len(t.tasks) :
                                         /\ t.tasks[j].device = device_name
                                         /\ t.tasks[j].channel # NoChannel}}
           : t \in Rows(store)}

\* a check that finds no interference
never_interferes(store, task) == FALSE

\* true iff a sub-task's channel is among the channels the stored tasks use
\* on the sub-task's device ("None in busy_channels" is false)
find_interference(store, task) ==
    \E k \in 1..Len(task.tasks) :
        task.tasks[k].channel \in find_channels(store, task.tasks[k].device)

\* ORDER BY priority ASC: the rows of the least priority
get_by_least_priority(store, task_type, blocked_samples) ==
    LET match == {t \in Rows(store) : /\ t.task_type \in task_type
                                      /\ t.sample_number \notin blocked_samples}
    IN  {t \in match : \A u \in match : t.priority <= u.priority}

\* get_and_remove_by_priority(task_type=[...], remove=False, blocked_samples=[...]):
\* ORDER BY priority DESC LIMIT 1.  SQLite may return any of the rows that tie
\* for the greatest priority, so the result is the set of possible rows; the
\* empty set stands for None.
get_and_remove_by_priority(store, task_type, blocked_samples) ==
    LET match == {t \in Rows(store) : /\ t.task_type \in task_type
                                      /\ t.sample_number \notin blocked_samples}
    IN  {t \in match : \A u \in match : u.priority <= t.priority}

\* The loop of get_future_devices over the transfer rows of the sample: every
\* row whose first sub-task is at the current position moves the position
\* along its sub-tasks.  The result holds (device, channel) tuples.
RECURSIVE FutureWalk(_, _, _, _)
FutureWalk(rows, current_device, current_channel, device_set) ==
    IF rows = <<>> THEN device_set
    ELSE LET task == Head(rows)
             follows == /\ task.tasks[1].device = current_device
                        /\ \/ current_channel = NoChannel
                           \/ current_channel = task.tasks[1].channel
             last == task.tasks[Len(task.tasks)]
         IN  IF follows
             THEN FutureWalk(Tail(rows), last.device, last.channel,
                      device_set \cup {<<"tuple", task.tasks[k].device, task.tasks[k].channel>>
                                       : k \in 1..Len(task.tasks)})
             ELSE FutureWalk(Tail(rows), current_device, current_channel, device_set)

get_future_devices(store, sample_number, device_name, channel) ==
    FutureWalk(SelectSeq(store, LAMBDA t : /\ t.sample_number = sample_number
                                           /\ t.task_type = "transfer"),
               device_name, channel, {})

----------------------------------------------------------------------------
(* device.py: the device objects of the registry.  A simulated device      *)
(* answers as Device does with its test flag set; any other device answers *)
(* over HTTP, so each of its answers is an input.                          *)

NoDevice ==
    [registered |-> FALSE, device_type |-> "", sample_mixing |-> TRUE,
     simulated |-> FALSE, number_of_channels |-> 1, passive |-> FALSE,
     channel_mode |-> "none"]

\* Device.__init__ as called by pre_process_init
Device(device_type, simulated, sample_mixing) ==
    [registered |-> TRUE, device_type |-> device_type,
     sample_mixing |-> sample_mixing, simulated |-> simulated,
     number_of_channels |-> 1, passive |-> FALSE, channel_mode |-> "none"]

Ready == {"IDLE", "UP"}

\* the possible (request_status, device_status, channel_status_list) answers
get_device_and_channel_status(name, device) ==
    IF device.simulated
    THEN {[request_status |-> "SUCCESS", device_status |-> "IDLE",
           channel_status |-> IF name = "qcmd1" THEN <<"BUSY", "IDLE">>
                              ELSE [c \in 1..device.number_of_channels |-> "IDLE"]]}
    ELSE {[request_status |-> "ERROR", device_status |-> "", channel_status |-> <<>>]}
         \cup {[request_status |-> "SUCCESS", device_status |-> d, channel_status |-> l]
               : d \in {"UP", "BUSY"},
                 l \in [1..device.number_of_channels -> {"IDLE", "BUSY"}]}

\* Device.init in test mode: the channel count of the sub-task, at least 1
InitChannels(subtask) ==
    IF subtask.number_of_channels < 2 THEN 1 ELSE subtask.number_of_channels

\* Device.execute_task: the possible (status, device after the call).  An init
\* adopts the channel count when it succeeds; a shutdown is no task type the
\* device recognizes.
execute_task(device, subtask, task_type) ==
    IF task_type = "init"
    THEN IF device.simulated
         THEN {[status |-> "SUCCESS",
                device |-> [device EXCEPT !.number_of_channels = InitChannels(subtask)]]}
         ELSE {[status |-> "SUCCESS",
                device |-> [device EXCEPT !.number_of_channels = InitChannels(subtask)]],
               [status |-> "ERROR", device |-> device]}
    ELSE IF task_type \in {"measure", "prepare", "transfer", "nochannel"}
    THEN IF device.simulated
         THEN {[status |-> "SUCCESS", device |-> device]}
         ELSE {[status |-> "SUCCESS", device |-> device],
               [status |-> "ERROR", device |-> device]}
    ELSE {[status |-> "INVALID", device |-> device]}

----------------------------------------------------------------------------
(* atc.py: helpers.  st is the scheduler object: its three stores, the     *)
(* device registry, the channel physical occupancy, and the log of the     *)
(* store operations of the running handler.                                *)

EmptySlot == [id |-> 0, sample_number |-> 0, priority |-> 0]

\* The store operations of a handler.  Each one takes and releases the lock
\* of its store, so st.log keeps them in the order in which they take effect.
StPut(st, store, task) ==
    [st EXCEPT ![store] = put(@, task),
               !.log = Append(@, [op |-> "put", store |-> store, task |-> task])]

\* a removal that leaves the row where it is
RowKept(st, store, task_id) == st

StRemove(st, store, task_id) ==
    [st EXCEPT ![store] = remove(@, task_id),
               !.log = Append(@, [op |-> "remove", store |-> store,
                                  task |-> [NoTask EXCEPT !.id = task_id]])]

\* a replace that only removes the row
StDrop(st, store, task, task_id) == StRemove(st, store, task_id)

\* TaskContainer.replace: remove, then put; the row moves to the end of the table
StReplace(st, store, task, task_id) ==
    IF task_id = 0 THEN st ELSE StPut(StRemove(st, store, task_id), store, task)

\* the task object a channel_po slot refers to
SlotOf(task) ==
    [id |-> task.id, sample_number |-> task.sample_number, priority |-> task.priority]

\* a write to a slot that is lost
SlotKept(st, device, channel, slot) == st

\* self.channel_po[device][channel] = ...: a write to one slot, in its place
\* among the store operations of the handler
StSlot(st, device, channel, slot) ==
    [st EXCEPT !.channel_po[device].slots[channel + 1] = slot,
               !.log = Append(@, [op |-> "slot", store |-> "channel_po",
                                  device |-> device, channel |-> channel, slot |-> slot])]

\* self.channel_po[device] = [None] * noc
StSlots(st, device, noc) ==
    [st EXCEPT !.channel_po[device] =
                   [present |-> TRUE, slots |-> [c \in 1..noc |-> EmptySlot]],
               !.log = Append(@, [op |-> "slots", store |-> "channel_po",
                                  device |-> device, noc |-> noc])]

NoChannelPo == [present |-> FALSE, slots |-> <<>>]

\* reterror: the response goes to the sub-task's md
reterror(task, k, resp) == [task EXCEPT !.tasks[k].response = resp]

get_channel_information_from_active_tasks(st, device_name) ==
    (0..(st.devices[device_name].number_of_channels - 1))
        \ find_channels(st.active_tasks, device_name)

\* the free channels of get_channel_occupancy
get_channel_occupancy(st, device_name) ==
    LET free_channels == get_channel_information_from_active_tasks(st, device_name)
        cpo == st.channel_po[device_name]
    IN  IF ~st.devices[device_name].passive /\ cpo.present
        THEN free_channels \cap {c \in 0..(Len(cpo.slots) - 1) : cpo.slots[c + 1] = EmptySlot}
        ELSE free_channels

\* the least channel of a set that is not empty
LowestChannel(channels) == CHOOSE c \in channels : \A d \in channels : c <= d

\* free_channels[0], where free_channels is list(set(...)) of channel numbers
\* in 0..8 (devices of up to 9 channels): the element the hash table of the
\* set holds first.  A set of up to four numbers has a table of eight slots
\* and number c sits in slot c mod 8, so 8 comes first unless 0 is in the
\* set; a larger set has a larger table and is held in ascending order.
FirstOfSet(channels) ==
    IF Cardinality(channels) <= 4 /\ 8 \in channels /\ 0 \notin channels
    THEN 8
    ELSE LowestChannel(channels)

\* the channel modes of a device: None, 'reuse' and 'new'
ChannelModes == {"none", "reuse", "new"}

\* find_free_channels: [ok, subtask, resp, exc].  A device whose channel_mode
\* is None gets the first free channel.  For any other mode the function asks
\* the history store for the channels of the sample, and that call,
\* TaskContainer.find_channels with a sample number, raises: it hands the
\* number itself to cursor.execute where a sequence of parameters is due.
\* The branches that follow it for 'reuse' and 'new' are never run.
find_free_channels(st, subtask) ==
    LET free_channels == get_channel_occupancy(st, subtask.device)
    IN  IF free_channels = {}
        THEN [ok |-> FALSE, subtask |-> subtask, resp |-> "No free channels available.",
              exc |-> FALSE]
        ELSE IF st.devices[subtask.device].channel_mode = "none"
        THEN [ok |-> TRUE,
              subtask |-> [subtask EXCEPT !.channel = FirstOfSet(free_channels)],
              resp |-> "Success.", exc |-> FALSE]
        ELSE [ok |-> FALSE, subtask |-> subtask, resp |-> "", exc |-> TRUE]

----------------------------------------------------------------------------
(* atc.py: type-specific pre-processing.  A handler returns                *)
(* [ok, task, st, resp, exc]: its success flag, the task, the scheduler    *)
(* (pre-processing writes the registry and channel_po), the response and   *)
(* whether it raised.                                                      *)

Handled(ok, task, st, resp) ==
    [ok |-> ok, task |-> task, st |-> st, resp |-> resp, exc |-> FALSE]

Raised(task, st) ==
    [ok |-> FALSE, task |-> task, st |-> st, resp |-> "", exc |-> TRUE]

KnownDeviceTypes == {"injection", "INJECTION", "lh", "LH", "qcmd", "QCMD"}

pre_process_init(st, task) ==
    LET subtask == task.tasks[1]
    IN  IF subtask.device_type \notin KnownDeviceTypes
        THEN Handled(FALSE, reterror(task, 1, "Unknown device."), st, "Unknown device.")
        ELSE Handled(TRUE, task,
                     [st EXCEPT !.devices[subtask.device] =
                         Device(subtask.device_type, subtask.simulated, subtask.sample_mixing)],
                     "Success.")

\* a search that settles on slot 0 whoever occupies it
SlotZero(slots, sample_number, j, best_channel) == 0

\* the sample search of pre_process_measure over the slots j, j+1, ...:
\* a slot of the sample replaces the best one so far when the best one's
\* priority is greater
RECURSIVE MeasureBestChannel(_, _, _, _)
MeasureBestChannel(slots, sample_number, j, best_channel) ==
    IF j >= Len(slots) THEN best_channel
    ELSE IF /\ slots[j + 1] # EmptySlot
            /\ slots[j + 1].sample_number = sample_number
            /\ \/ best_channel = NoChannel
               \/ slots[best_channel + 1].priority > slots[j + 1].priority
         THEN MeasureBestChannel(slots, sample_number, j + 1, j)
         ELSE MeasureBestChannel(slots, sample_number, j + 1, best_channel)

pre_process_measure(st, task) ==
    LET subtask == task.tasks[1]
        cpo == st.channel_po[subtask.device]
        cpol == cpo.slots
        best_channel == MeasureBestChannel(cpol, task.sample_number, 0, NoChannel)
    IN  IF Len(task.tasks) > 1
        THEN Handled(FALSE, task, st, "Multiple measurements per task not supported.")
        ELSE IF ~cpo.present
        THEN Handled(FALSE, reterror(task, 1, "Device not intialized."), st,
                     "Device not intialized.")
        ELSE IF subtask.non_channel_storage /\ subtask.channel # NoChannel
        THEN Handled(FALSE, reterror(task, 1, "Channel and non-channel storage."), st,
                     "Channel and non-channel storage.")
        ELSE IF subtask.channel # NoChannel
        THEN IF ~(0 <= subtask.channel /\ subtask.channel < Len(cpol))
             THEN Handled(FALSE, reterror(task, 1, "Invalid channel number."), st,
                          "Invalid channel number.")
             ELSE IF cpol[subtask.channel + 1] = EmptySlot
             THEN \* a measurement with a manual channel number creates a sample
                  Handled(TRUE, reterror(task, 1, "Success. Created sample."),
                          StSlot(st, subtask.device, subtask.channel, SlotOf(task)),
                          "Success. Created sample.")
             ELSE IF cpol[subtask.channel + 1].sample_number # task.sample_number
             THEN Handled(FALSE, reterror(task, 1, "Wrong sample in channel."), st,
                          "Wrong sample in channel.")
             ELSE Handled(TRUE, task, st, "Success.")
        ELSE IF subtask.non_channel_storage
        THEN Handled(TRUE, task, st, "Success.")
        ELSE IF best_channel = NoChannel
        THEN Handled(FALSE, reterror(task, 1, "Did not find the sample."), st,
                     "Did not find the sample.")
        ELSE Handled(TRUE, [task EXCEPT !.tasks[1].channel = best_channel], st, "Success.")

pre_process_prepare(st, task) ==
    LET subtask == task.tasks[1]
        found == find_free_channels(st, subtask)
    IN  IF Len(task.tasks) > 1
        THEN Handled(FALSE, task, st, "Multiple preparations per task not supported.")
        ELSE IF ~st.channel_po[subtask.device].present
        THEN Handled(FALSE, reterror(task, 1, "Device not intialized."), st,
                     "Device not intialized.")
        ELSE IF subtask.channel # NoChannel
        THEN \* no check if the manual channel is occupied
             Handled(TRUE, task, st, "Success.")
        ELSE IF found.exc
        THEN Raised(task, st)
        ELSE Handled(found.ok, [task EXCEPT !.tasks[1] = found.subtask], st, found.resp)

\* the sample search of pre_process_transfer for the source sub-task (i = 0):
\* the comparison reads cpol[i], slot 0, which raises when that slot is None
RECURSIVE TransferBestChannel(_, _, _, _)
TransferBestChannel(slots, sample_number, j, best_channel) ==
    IF j >= Len(slots) THEN [best_channel |-> best_channel, exc |-> FALSE]
    ELSE IF slots[j + 1] # EmptySlot /\ slots[j + 1].sample_number = sample_number
         THEN IF best_channel = NoChannel
              THEN TransferBestChannel(slots, sample_number, j + 1, j)
              ELSE IF slots[1] = EmptySlot
              THEN [best_channel |-> best_channel, exc |-> TRUE]
              ELSE IF slots[best_channel + 1].priority > slots[1].priority
              THEN TransferBestChannel(slots, sample_number, j + 1, j)
              ELSE TransferBestChannel(slots, sample_number, j + 1, best_channel)
         ELSE TransferBestChannel(slots, sample_number, j + 1, best_channel)

\* the loop of pre_process_transfer from sub-task k on
RECURSIVE TransferSubtasks(_, _, _)
TransferSubtasks(st, task, k) ==
    IF k > Len(task.tasks) THEN Handled(TRUE, task, st, "Success.")
    ELSE
    LET subtask == task.tasks[k]
        cpo == st.channel_po[subtask.device]
        cpol == cpo.slots
        device_obj == st.devices[subtask.device]
        source == TransferBestChannel(cpol, task.sample_number, 0, NoChannel)
        found == find_free_channels(st, subtask)
    IN  IF ~cpo.present
        THEN Handled(FALSE, reterror(task, k, "Device not intialized."), st,
                     "Device not intialized.")
        ELSE IF subtask.non_channel_storage /\ subtask.channel # NoChannel
        THEN Handled(FALSE, reterror(task, k, "Channel and non-channel storage."), st,
                     "Channel and non-channel storage.")
        ELSE IF k = 1 /\ device_obj.passive
        THEN Handled(FALSE, reterror(task, k, "Passive device cannot initiate transfer."),
                     st, "Passive device cannot initiate transfer.")
        ELSE IF subtask.channel # NoChannel
        THEN IF ~(0 <= subtask.channel /\ subtask.channel < Len(cpol))
             THEN Handled(FALSE, reterror(task, k, "Invalid channel number."), st,
                          "Invalid channel number.")
             ELSE IF k = 1
             THEN IF cpol[subtask.channel + 1] = EmptySlot
                  THEN \* a transfer with a manual channel number creates a sample
                       TransferSubtasks(
                           StSlot(st, subtask.device, subtask.channel, SlotOf(task)),
                           reterror(task, k, "Success. Created sample."), k + 1)
                  ELSE IF cpol[subtask.channel + 1].sample_number # task.sample_number
                  THEN Handled(FALSE, reterror(task, k, "Wrong sample in channel."), st,
                               "Wrong sample in channel.")
                  ELSE TransferSubtasks(st, task, k + 1)
             ELSE IF ~device_obj.passive /\ cpol[subtask.channel + 1] # EmptySlot
             THEN Handled(FALSE, reterror(task, k, "Device channel not empty."), st,
                          "Device channel not empty.")
             ELSE TransferSubtasks(st, task, k + 1)
        ELSE IF subtask.non_channel_storage
        THEN TransferSubtasks(st, reterror(task, k, "Success. Non-channel transfer."), k + 1)
        ELSE IF k = 1
        THEN IF source.exc
             THEN Raised(task, st)
             ELSE IF source.best_channel = NoChannel
             THEN Handled(FALSE, task, st, "Did not find the sample.")
             ELSE TransferSubtasks(st, [task EXCEPT !.tasks[k].channel = source.best_channel],
                                   k + 1)
        ELSE IF found.exc
        THEN Raised(task, st)
        ELSE IF ~found.ok
        THEN Handled(FALSE, task, st, found.resp)
        ELSE TransferSubtasks(st, [task EXCEPT !.tasks[k] = found.subtask], k + 1)

\* a pre-processing that lets every transfer pass as it is
AdmitAll(st, task) == Handled(TRUE, task, st, "Success.")

pre_process_transfer(st, task) == TransferSubtasks(st, task, 1)

----------------------------------------------------------------------------
(* atc.py: process_task.  Its outcomes are [ok, task, st, exc, sent]: the  *)
(* success flag, the task as returned, the scheduler, whether the call     *)
(* raised, and whether the sub-tasks were handed to execute_task.          *)

Processed(ok, task, st, exc, sent) ==
    [ok |-> ok, task |-> task, st |-> st, exc |-> exc, sent |-> sent, probes |-> <<>>]

\* what the pre-submission check saw of one sub-task: the sub-task's device
\* and channel as scheduled, whether the device is registered, and the
\* answer to the status request
Probe(subtask, registered, reply) ==
    [device |-> subtask.device, channel |-> subtask.channel, registered |-> registered,
     reply |-> reply]

NoReply == [request_status |-> "", device_status |-> "", channel_status |-> <<>>]

\* a pre-submission check that passes every task unseen
Unchecked(st, task, k) == {[verdict |-> "pass", task |-> task, probes |-> <<>>]}

\* the pre-submission status checks from sub-task k on: the possible
\* verdicts "pass", "fail" and "raise" with the task as annotated and what
\* the checks saw of the sub-tasks they reached
RECURSIVE PreSubmission(_, _, _)
PreSubmission(st, task, k) ==
    IF k > Len(task.tasks) THEN {[verdict |-> "pass", task |-> task, probes |-> <<>>]}
    ELSE
    LET subtask == task.tasks[k]
        device == st.devices[subtask.device]
        Fail(resp) == [verdict |-> "fail",
                       task |-> [reterror(task, k, resp) EXCEPT !.response = resp],
                       probes |-> <<>>]
        Seen(probe, outcomes) ==
            {[o EXCEPT !.probes = <<probe>> \o @] : o \in outcomes}
        Check(reply) ==
            IF reply.request_status # "SUCCESS"
            THEN {Fail("Could not get status from device.")}
            ELSE IF reply.device_status \notin Ready
            THEN {Fail("Waiting. Device status.")}
            ELSE IF subtask.channel # NoChannel
                    /\ ~(subtask.channel < Len(reply.channel_status))
            THEN {[verdict |-> "raise", task |-> task, probes |-> <<>>]}
            ELSE IF subtask.channel # NoChannel
                    /\ reply.channel_status[subtask.channel + 1] \notin Ready
            THEN {Fail("Waiting. Channel status.")}
            ELSE PreSubmission(st, reterror(task, k, "Subtask passed pre-submission checks."),
                               k + 1)
    IN  IF ~device.registered
        THEN Seen(Probe(subtask, FALSE, NoReply), {Fail("Unknown device")})
        ELSE UNION {Seen(Probe(subtask, TRUE, reply), Check(reply)) :
                    reply \in get_device_and_channel_status(subtask.device, device)}

\* the submission loop from sub-task k on: every sub-task is handed to its
\* device, whatever the earlier ones answered
RECURSIVE SubmitSubtasks(_, _, _, _)
SubmitSubtasks(st, task, k, task_success) ==
    IF k > Len(task.tasks) THEN {[st |-> st, task_success |-> task_success, exc |-> FALSE]}
    ELSE
    LET subtask == task.tasks[k]
        device == st.devices[subtask.device]
    IN  IF ~device.registered
        THEN {[st |-> st, task_success |-> FALSE, exc |-> TRUE]}
        ELSE UNION {SubmitSubtasks([st EXCEPT !.devices[subtask.device] = answer.device],
                                   task, k + 1,
                                   task_success /\ answer.status = "SUCCESS")
                    : answer \in execute_task(device, subtask, task.task_type)}

TaskHandlers == {"init", "shutdown", "transfer", "prepare", "measure", "nochannel"}

PreProcess(st, task) ==
    IF task.task_type = "init" THEN pre_process_init(st, task)
    ELSE IF task.task_type = "transfer" THEN pre_process_transfer(st, task)
    ELSE IF task.task_type = "prepare" THEN pre_process_prepare(st, task)
    ELSE IF task.task_type = "measure" THEN pre_process_measure(st, task)
    ELSE Handled(TRUE, task, st, "Success. No check performed for this task type.")

\* process_task after the pre-submission checks
Submission(st, task) ==
    LET h == PreProcess(st, task)
        checked == [h.task EXCEPT !.response = h.resp]
        Submitted(s) ==
            IF s.exc THEN Processed(FALSE, checked, s.st, TRUE, TRUE)
            ELSE IF s.task_success
            THEN LET sent == [checked EXCEPT !.device_response = "Task successfully submitted."]
                 IN  Processed(TRUE, sent, StPut(s.st, "active_tasks", sent), FALSE, TRUE)
            ELSE Processed(FALSE,
                           [checked EXCEPT !.device_response = "Task failed at instrument."],
                           s.st, FALSE, TRUE)
    IN  IF task.task_type \notin TaskHandlers
        THEN {Processed(FALSE, [task EXCEPT !.response = "Unknown task type."], st,
                        FALSE, FALSE)}
        ELSE IF h.exc
        THEN {Processed(FALSE, h.task, h.st, TRUE, FALSE)}
        ELSE IF h.ok /\ find_interference(h.st.active_tasks, checked)
        THEN {Processed(FALSE,
                        [checked EXCEPT !.response = "Waiting for ongoing task."],
                        h.st, FALSE, FALSE)}
        ELSE IF h.ok
        THEN {Submitted(s) : s \in SubmitSubtasks(h.st, checked, 1, TRUE)}
        ELSE {Processed(FALSE,
                        [checked EXCEPT !.device_response = "Task not submitted to device."],
                        h.st, FALSE, FALSE)}

process_task(st, task) ==
    LET cleared == [task EXCEPT !.response = "",
                                !.tasks = [k \in 1..Len(task.tasks) |->
                                              [task.tasks[k] EXCEPT !.response = ""]]]
        Continue(p) ==
            IF p.verdict = "pass"
            THEN {[q EXCEPT !.probes = p.probes] : q \in Submission(st, p.task)}
            ELSE {[Processed(FALSE, p.task, st, p.verdict = "raise", FALSE) EXCEPT
                      !.probes = p.probes]}
    IN  IF task.task_type # "init"
        THEN UNION {Continue(p) : p \in PreSubmission(st, cleared, 1)}
        ELSE Submission(st, cleared)

----------------------------------------------------------------------------
(* atc.py: queue_execute_one_item *)

\* bands that put the sample work before the initialisations
sample_work_first ==
    <<{"prepare", "transfer", "measure", "nochannel"}, {"init"}, {"shutdown"}>>

task_priority ==
    <<{"init"}, {"prepare", "transfer", "measure", "nochannel"}, {"shutdown"}>>

\* the dependency check on the sample number alone
DependencyOnNumberOnly(st, task) ==
    /\ task.dependency_sample_number # 0
    /\ get_task_by_sample_number(st.queue, task.dependency_sample_number) # <<>>

\* the two dependency checks: a task of the dependency's sample number, or
\* the task with the dependency's id, is in the queue
DependencyFound(st, task) ==
    \/ /\ task.dependency_sample_number # 0
       /\ get_task_by_sample_number(st.queue, task.dependency_sample_number) # <<>>
    \/ /\ task.dependency_id # 0
       /\ get_task_by_id(st.queue, task.dependency_id) # NoTask

\* the keys of the registry, which are device names (strings)
RegistryKeys(st) == {<<"str", d>> : d \in {n \in DeviceNames : st.devices[n].registered}}

\* the route check: true iff route_ok ends False.  The elements of
\* device_list_on_route are (device, channel) tuples and are looked up as
\* they are among the keys of the registry.
RouteConflict(st, task) ==
    LET route_check ==
            /\ task.task_type \notin {"init", "shutdown"}
            /\ \E d \in DeviceNames : /\ st.devices[d].registered
                                      /\ ~st.devices[d].sample_mixing
        device_list_on_route ==
            get_future_devices(st.queue, task.sample_number, task.tasks[1].device,
                               task.tasks[1].channel)
        lowest_sample_number == get_lowest_sample_number(st.queue)
    IN  /\ route_check
        /\ \E device \in device_list_on_route :
              /\ device \in RegistryKeys(st)
              /\ lowest_sample_number # 0
              /\ (task.sample_number - lowest_sample_number)
                     > (st.devices[device[2]].number_of_channels - 1)

\* how a call ended: the scheduler, the success flag, why the loop was left,
\* the last candidate, blocked_samples, and the candidates handed to
\* process_task with what became of each
\* a call that ends with blocked_samples as empty as it began
NothingBlocked(st, success, end, task_id, blocked_samples, attempts) ==
    [st |-> st, success |-> success, end |-> end, task |-> task_id,
     blocked |-> {}, attempts |-> attempts]

Returned(st, success, end, task_id, blocked_samples, attempts) ==
    [st |-> st, success |-> success, end |-> end, task |-> task_id,
     blocked |-> blocked_samples, attempts |-> attempts]

Attempt(task, p) ==
    [id |-> task.id, task_type |-> task.task_type, sample_number |-> task.sample_number,
     ok |-> p.ok, sent |-> p.sent, response |-> p.task.response,
     device_response |-> p.task.device_response, exc |-> p.exc, probes |-> p.probes,
     subtasks |-> Len(task.tasks)]

\* the while loop of queue_execute_one_item from band i on
RECURSIVE ExecuteLoop(_, _, _, _, _)
ExecuteLoop(st, i, blocked_samples, success, attempts) ==
    IF i > Len(task_priority)
    THEN {Returned(st, success, "exhausted", 0, blocked_samples, attempts)}
    ELSE
    LET found == get_and_remove_by_priority(st.queue, task_priority[i], blocked_samples)
        After(task, p) ==
            IF p.exc
            THEN {Returned(p.st, FALSE, "exception", task.id, blocked_samples,
                           Append(attempts, Attempt(task, p)))}
            ELSE IF p.ok
            THEN {Returned(StRemove(p.st, "queue", p.task.id), TRUE, "dispatched", task.id,
                           blocked_samples, Append(attempts, Attempt(task, p)))}
            ELSE ExecuteLoop(StReplace(p.st, "queue", p.task, p.task.id), i,
                             blocked_samples \cup {task.sample_number}, FALSE,
                             Append(attempts, Attempt(task, p)))
        Try(task) ==
            IF DependencyFound(st, task)
            THEN {Returned(st, success, "dependency", task.id, blocked_samples, attempts)}
            ELSE IF RouteConflict(st, task)
            THEN {Returned(st, success, "route", task.id, blocked_samples, attempts)}
            ELSE UNION {After(task, p) : p \in process_task(st, task)}
    IN  IF found = {}
        THEN ExecuteLoop(st, i + 1, blocked_samples, success, attempts)
        ELSE UNION {Try(task) : task \in found}

queue_execute_one_item(st) == ExecuteLoop(st, 1, {}, FALSE, <<>>)

----------------------------------------------------------------------------
(* atc.py: check_task, post_process_task, update_active_tasks *)

\* what check_task saw of sub-task k: the answer to its status request
Poll(k, subtask, reply) == [k |-> k, probe |-> Probe(subtask, TRUE, reply)]

\* check_task from sub-task k on: the possible [task, task_completed, exc,
\* probes], probes being the status requests it made, in order
RECURSIVE CheckSubtasks(_, _, _, _)
CheckSubtasks(st, task, k, task_completed) ==
    IF k > Len(task.tasks)
    THEN {[task |-> IF task_completed THEN [task EXCEPT !.execution_response = "Success."]
                    ELSE task,
           task_completed |-> task_completed, exc |-> FALSE, probes |-> <<>>]}
    ELSE
    LET subtask == task.tasks[k]
        device == st.devices[subtask.device]
        Waiting(resp) ==
            CheckSubtasks(st, [task EXCEPT !.execution_response = resp], k + 1, FALSE)
        Requested(reply) ==
            IF reply.request_status # "SUCCESS"
            THEN Waiting("Waiting. Status request unsuccesful")
            ELSE IF subtask.channel = NoChannel
            THEN IF reply.device_status \notin Ready
                 THEN Waiting("Waiting. Not finished.")
                 ELSE CheckSubtasks(st, [task EXCEPT !.tasks[k].done = TRUE], k + 1,
                                    task_completed)
            ELSE IF ~(subtask.channel < Len(reply.channel_status))
            THEN {[task |-> task, task_completed |-> FALSE, exc |-> TRUE,
                   probes |-> <<>>]}
            ELSE IF reply.channel_status[subtask.channel + 1] \notin Ready
            THEN Waiting("Waiting. Not finished.")
            ELSE CheckSubtasks(st, [task EXCEPT !.tasks[k].done = TRUE], k + 1,
                               task_completed)
        Check(reply) ==
            {[r EXCEPT !.probes = <<Poll(k, subtask, reply)>> \o @]
                : r \in Requested(reply)}
    IN  IF subtask.done
        THEN \* flagged as completed before: no status request
             CheckSubtasks(st, task, k + 1, task_completed)
        ELSE IF ~device.registered
        THEN {[task |-> task, task_completed |-> FALSE, exc |-> TRUE, probes |-> <<>>]}
        ELSE UNION {Check(reply) :
                    reply \in get_device_and_channel_status(subtask.device, device)}

check_task(st, task) == CheckSubtasks(st, task, 1, TRUE)

\* Device.read: the possible statuses
read(device) == IF device.simulated THEN {"SUCCESS"} ELSE {"SUCCESS", "ERROR"}

\* a channel index the occupancy list of the device accepts
ValidSlot(st, device_name, channel) ==
    /\ st.channel_po[device_name].present
    /\ 0 <= channel
    /\ channel < Len(st.channel_po[device_name].slots)

\* the end of post_process_task: the task moves to the history
MoveToHistory(st, task) ==
    LET finished == [task EXCEPT !.execution_response = "Success."]
    IN  [ok |-> TRUE, exc |-> FALSE, resp |-> "Success.",
         st |-> StPut(StRemove(st, "active_tasks", finished.id), "sample_history", finished)]

\* a failed read-out that files the task in the history all the same
GiveUp(st, task, resp) ==
    LET kept == [task EXCEPT !.execution_response = resp]
    IN  [ok |-> FALSE, exc |-> FALSE, resp |-> resp,
         st |-> StPut(StRemove(st, "active_tasks", kept.id), "sample_history", kept)]

\* a failed read-out: the task stays in the active store with the response
KeepActive(st, task, resp) ==
    LET kept == [task EXCEPT !.execution_response = resp]
    IN  [ok |-> FALSE, exc |-> FALSE, resp |-> resp,
         st |-> StReplace(st, "active_tasks", kept, kept.id)]

PostRaised(st) == [ok |-> FALSE, exc |-> TRUE, resp |-> "", st |-> st]

\* the possible [ok, exc, st] of post_process_task
post_process_task(st, task) ==
    LET first == task.tasks[1]
        last == task.tasks[Len(task.tasks)]
        device == st.devices[first.device]
        slot == st.channel_po[first.device].slots[first.channel + 1]
        Measured(reply, read_status) ==
            IF reply.request_status # "SUCCESS"
            THEN KeepActive(st, task, "Cannot get status from device.")
            ELSE IF reply.device_status \notin Ready
            THEN KeepActive(st, task, "Device busy or down.")
            ELSE IF read_status # "SUCCESS"
            THEN KeepActive(st, task, "Failure reading measurement data.")
            ELSE IF ~ValidSlot(st, first.device, first.channel)
            THEN PostRaised(st)
            ELSE IF slot = EmptySlot
            THEN PostRaised(st)
            ELSE MoveToHistory(
                     StSlot(st, first.device, first.channel, SlotOf(task)),
                     [task EXCEPT !.task_history = Append(@, slot.id)])
        \* the source slot of a transfer is emptied, its task noted in the history
        released ==
            IF first.channel # NoChannel /\ slot # EmptySlot
            THEN [st |-> StSlot(st, first.device, first.channel, EmptySlot),
                  task |-> [task EXCEPT !.task_history = Append(@, slot.id)]]
            ELSE [st |-> st, task |-> task]
    IN  IF task.task_type = "init"
        THEN IF ~device.registered
             THEN {PostRaised(st)}
             ELSE {MoveToHistory(
                      StSlots(st, first.device, device.number_of_channels), task)}
        ELSE IF task.task_type = "measure"
        THEN IF ~device.registered
             THEN {PostRaised(st)}
             ELSE {Measured(reply, read_status) :
                   reply \in get_device_and_channel_status(first.device, device),
                   read_status \in read(device)}
        ELSE IF task.task_type = "prepare"
        THEN IF ~ValidSlot(st, first.device, first.channel)
             THEN {PostRaised(st)}
             ELSE {MoveToHistory(
                      StSlot(st, first.device, first.channel, SlotOf(task)), task)}
        ELSE IF task.task_type = "transfer"
        THEN IF first.channel # NoChannel /\ ~ValidSlot(st, first.device, first.channel)
             THEN {PostRaised(st)}
             ELSE IF last.channel # NoChannel /\ ~ValidSlot(st, last.device, last.channel)
             THEN {PostRaised(released.st)}
             ELSE IF last.channel # NoChannel
             THEN {MoveToHistory(
                      StSlot(released.st, last.device, last.channel,
                             SlotOf(released.task)),
                      released.task)}
             ELSE {MoveToHistory(released.st, released.task)}
        ELSE {MoveToHistory(st, task)}

\* what update_active_tasks did with one task of its list: whether it was
\* collected, and the execution response it was left with
Polled(task, ok, resp) ==
    [id |-> task.id, task_type |-> task.task_type, sample_number |-> task.sample_number,
     ok |-> ok, sent |-> FALSE, response |-> resp, device_response |-> "", exc |-> FALSE,
     probes |-> <<>>, subtasks |-> Len(task.tasks)]

\* the loop of update_active_tasks over the rest of its snapshot task_list:
\* the possible [st, collected, exc, polled]
RECURSIVE UpdateLoop(_, _, _, _)
UpdateLoop(st, task_list, collected, polled) ==
    IF task_list = <<>>
    THEN {[st |-> st, collected |-> collected, exc |-> FALSE, polled |-> polled]}
    ELSE
    LET Post(c, p) ==
            IF p.exc
            THEN {[st |-> p.st, collected |-> collected, exc |-> TRUE, polled |-> polled]}
            ELSE UpdateLoop(p.st, Tail(task_list), collected \/ p.ok,
                            Append(polled, [Polled(c.task, p.ok, p.resp) EXCEPT
                                               !.probes = c.probes]))
        Checked(c) ==
            IF c.exc
            THEN {[st |-> st, collected |-> collected, exc |-> TRUE, polled |-> polled]}
            ELSE IF c.task_completed
            THEN UNION {Post(c, p) : p \in post_process_task(st, c.task)}
            ELSE UpdateLoop(StReplace(st, "active_tasks", c.task, c.task.id),
                            Tail(task_list), collected,
                            Append(polled,
                                   [Polled(c.task, FALSE, c.task.execution_response)
                                       EXCEPT !.probes = c.probes]))
    IN  UNION {Checked(c) : c \in check_task(st, Head(task_list))}

update_active_tasks(st) == UpdateLoop(st, st.active_tasks, FALSE, <<>>)

----------------------------------------------------------------------------
(* atc.py: queue_put, reset, restart, __init__.  The dict                  *)
(* sample_id_to_number is the sequence of its items in insertion order.    *)

MapKeys(sitn) == {sitn[k].sample_id : k \in 1..Len(sitn)}

MapValues(sitn) == {sitn[k].sample_number : k \in 1..Len(sitn)}

\* sitn[sample_id]
MapGet(sitn, sample_id) ==
    LET k == CHOOSE j \in 1..Len(sitn) : sitn[j].sample_id = sample_id
    IN  sitn[k].sample_number

\* list(sitn.keys())[list(sitn.values()).index(sample_number)]: the first key
\* that has the value
MapKeyOf(sitn, sample_number) ==
    LET k == CHOOSE j \in 1..Len(sitn) :
                /\ sitn[j].sample_number = sample_number
                /\ \A h \in 1..(j - 1) : sitn[h].sample_number # sample_number
    IN  sitn[k].sample_id

\* sitn[sample_id] = sample_number: a known key keeps its place
MapSet(sitn, sample_id, sample_number) ==
    IF sample_id \in MapKeys(sitn)
    THEN [k \in 1..Len(sitn) |->
             IF sitn[k].sample_id = sample_id
             THEN [sample_id |-> sample_id, sample_number |-> sample_number]
             ELSE sitn[k]]
    ELSE Append(sitn, [sample_id |-> sample_id, sample_number |-> sample_number])

\* len(sitn)
MapLen(sitn) == Len(sitn)

\* max(sitn.values())
MapMax(sitn) ==
    CHOOSE n \in MapValues(sitn) : \A m \in MapValues(sitn) : m <= n

\* uuid.uuid4(): an id no caller and no other task has; caller ids are below UuidBase
UuidBase == 100
uuid4(task) == UuidBase + task.id

\* a numbering that gives every new sample id the number 1
FirstSampleNumber(sitn, sample_id) == 1

\* the sample number queue_put gives a task that has a sample id only
NewSampleNumber(sitn, sample_id) ==
    IF sitn = <<>> THEN 1
    ELSE IF sample_id \in MapKeys(sitn) THEN MapGet(sitn, sample_id)
    ELSE MapMax(sitn) + 1

\* a sample id no other task has, whatever the map binds
FreshSampleId(sitn, task, sample_number) == uuid4(task)

\* the sample id queue_put gives a task that has a sample number only
NewSampleId(sitn, task, sample_number) ==
    IF sample_number \in MapValues(sitn) THEN MapKeyOf(sitn, sample_number)
    ELSE uuid4(task)

\* a priority that grows with the submission time
LaterFirst(sample_number, now) == now - sample_number * TimeScale

\* the priority queue_put computes: -sample_number - p1
NewPriority(sample_number, now) == 0 - (sample_number * TimeScale + now)

\* a queue_put that takes the caller's word for sample id and number
PutUnchecked(sitn, store, task, now) ==
    [ok |-> TRUE, task |-> task,
     sitn |-> MapSet(sitn, task.sample_id, task.sample_number),
     queue |-> put(store, task)]

\* queue_put: [ok, task, sitn, queue]
queue_put(sitn, store, task0, now) ==
    LET task == IF task0.sample_number = 0 /\ task0.sample_id = 0
                THEN [task0 EXCEPT !.sample_number = 1] ELSE task0
        Rejected == [ok |-> FALSE, task |-> task, sitn |-> sitn, queue |-> store]
        Enqueue(t) ==
            LET prioritized == IF t.priority = 0
                               THEN [t EXCEPT !.priority = NewPriority(t.sample_number, now)]
                               ELSE t
            IN  [ok |-> TRUE, task |-> prioritized,
                 sitn |-> MapSet(sitn, t.sample_id, t.sample_number),
                 queue |-> put(store, prioritized)]
    IN  IF task.sample_number # 0 /\ task.sample_id # 0
        THEN IF /\ task.sample_id \notin MapKeys(sitn)
                /\ task.sample_number \notin MapValues(sitn)
             THEN Enqueue(task)
             ELSE IF task.sample_id \in MapKeys(sitn)
             THEN IF MapGet(sitn, task.sample_id) # task.sample_number
                  THEN Rejected
                  ELSE Enqueue(task)
             ELSE Rejected
        ELSE IF task.sample_id # 0
        THEN Enqueue([task EXCEPT !.sample_number = NewSampleNumber(sitn, task.sample_id)])
        ELSE Enqueue([task EXCEPT !.sample_id = NewSampleId(sitn, task, task.sample_number)])

\* an occupancy table left as it is
KeptChannelPo(cpo) == cpo

\* a cancellation that leaves the occupancy table alone
CancelTracking(st, task_id, include_active, drop_material) ==
    LET scheduled == get_task_by_id(st.queue, task_id)
        active == get_task_by_id(st.active_tasks, task_id)
    IN  IF scheduled # NoTask
        THEN [task |-> scheduled, st |-> [st EXCEPT !.queue = remove(@, task_id)]]
        ELSE IF include_active /\ active # NoTask
        THEN [task |-> active, st |-> [st EXCEPT !.active_tasks = remove(@, task_id)]]
        ELSE [task |-> NoTask, st |-> st]

\* queue_cancel(task_id, include_active, drop_material): the task leaves the
\* scheduled store or, if include_active, the active store; with
\* drop_material every occupancy slot that refers to the task is emptied.
\* The result is [task, st]; NoTask stands for null.
queue_cancel(st, task_id, include_active, drop_material) ==
    LET scheduled == get_task_by_id(st.queue, task_id)
        active == get_task_by_id(st.active_tasks, task_id)
        Dropped(cpo) ==
            [d \in DeviceNames |->
                [cpo[d] EXCEPT !.slots =
                    [c \in 1..Len(cpo[d].slots) |->
                        IF cpo[d].slots[c].id = task_id THEN EmptySlot
                        ELSE cpo[d].slots[c]]]]
        Cleared(st1) ==
            IF drop_material THEN [st1 EXCEPT !.channel_po = Dropped(@)] ELSE st1
    IN  IF scheduled # NoTask
        THEN [task |-> scheduled, st |-> Cleared([st EXCEPT !.queue = remove(@, task_id)])]
        ELSE IF include_active /\ active # NoTask
        THEN [task |-> active,
              st |-> Cleared([st EXCEPT !.active_tasks = remove(@, task_id)])]
        ELSE [task |-> NoTask, st |-> st]

\* reset: the occupancy lists keep their length
ClearedChannelPo(cpo) ==
    [d \in DeviceNames |->
        [cpo[d] EXCEPT !.slots = [c \in 1..Len(cpo[d].slots) |-> EmptySlot]]]

\* __init__: the map is rebuilt from the tasks of the three stores, in the
\* order queue, history, active
RECURSIVE RebuiltMap(_, _)
RebuiltMap(all_tasks, sitn) ==
    IF all_tasks = <<>> THEN sitn
    ELSE RebuiltMap(Tail(all_tasks),
                    MapSet(sitn, Head(all_tasks).sample_id, Head(all_tasks).sample_number))

----------------------------------------------------------------------------
(* The producers: each script is a list of tasks as a producer builds them *)
(* (tests/integration_test.py); the task id is the place in the list.      *)

InitLh(id, simulated) ==
    Task(id, "init", 0, 0, <<InitData("lh1", "lh", 2, simulated, TRUE)>>)

Simple(id, task_type, sample_id, sample_number, channel) ==
    Task(id, task_type, sample_id, sample_number, <<TaskData("lh1", channel)>>)

Transfer(id, sample_number, source_channel, target_channel) ==
    Task(id, "transfer", 0, sample_number,
         <<TaskData("lh1", source_channel), TaskData("qcmd1", target_channel)>>)

\* an initialisation of lh1 that names one channel
InitLhOne(id, simulated) ==
    Task(id, "init", 0, 0, <<InitData("lh1", "lh", 1, simulated, TRUE)>>)

Scripts ==
    [ids |->
        <<InitLh(1, TRUE),
          Simple(2, "nochannel", 11, 0, NoChannel),
          Simple(3, "nochannel", 12, 1, NoChannel),
          Simple(4, "nochannel", 0, 2, NoChannel)>>,
     dep |->
        <<InitLh(1, TRUE),
          Simple(2, "prepare", 0, 1, NoChannel),
          [Simple(3, "prepare", 0, 2, NoChannel) EXCEPT !.dependency_sample_number = 1],
          [Simple(4, "nochannel", 0, 2, NoChannel) EXCEPT !.dependency_sample_number = 3],
          Simple(5, "nochannel", 0, 3, NoChannel),
          Simple(6, "nochannel", 0, 4, NoChannel)>>,
     depid |->
        <<InitLh(1, TRUE),
          Task(2, "nochannel", 0, 1, <<TaskData("qcmd1", NoChannel)>>),
          [Simple(3, "nochannel", 0, 2, NoChannel) EXCEPT !.dependency_id = 2],
          Simple(4, "nochannel", 0, 3, NoChannel)>>,
     selfdep |->
        <<InitLh(1, TRUE),
          Simple(2, "nochannel", 0, 1, NoChannel),
          [Simple(3, "nochannel", 0, 2, NoChannel) EXCEPT !.dependency_sample_number = 2],
          Simple(4, "nochannel", 0, 3, NoChannel)>>,
     route |->
        <<Task(1, "init", 0, 0, <<InitData("qcmd1", "qcmd", 1, TRUE, FALSE)>>),
          InitLh(2, TRUE),
          Simple(3, "prepare", 0, 1, NoChannel),
          Transfer(4, 1, NoChannel, 0),
          Task(5, "measure", 0, 1, <<TaskData("qcmd1", 0)>>),
          Simple(6, "prepare", 0, 2, NoChannel),
          Transfer(7, 2, NoChannel, 0),
          Task(8, "measure", 0, 2, <<TaskData("qcmd1", 0)>>)>>,
     bands |->
        <<InitLh(1, TRUE),
          Simple(2, "nochannel", 0, 2, NoChannel),
          Task(3, "init", 0, 0, <<InitData("qcmd1", "spectrometer", 1, TRUE, TRUE)>>),
          Simple(4, "shutdown", 0, 3, NoChannel),
          Task(5, "nochannel", 0, 2, <<TaskData("qcmd1", NoChannel)>>)>>,
     readout |->
        <<InitLhOne(1, FALSE),
          Task(2, "measure", 0, 1, <<TaskData("lh1", 0)>>)>>,
     moves |->
        <<InitLh(1, TRUE),
          Task(2, "init", 0, 0, <<InitData("qcmd1", "qcmd", 2, TRUE, TRUE)>>),
          Simple(3, "prepare", 0, 1, 0),
          Task(4, "transfer", 0, 1,
               <<TaskData("lh1", 0), TaskData("qcmd1", 1), TaskData("lh1", 1)>>),
          Task(5, "transfer", 0, 1, <<TaskData("lh1", 1)>>)>>,
     offline |->
        <<InitLh(1, TRUE),
          Task(2, "measure", 0, 1,
               <<[TaskData("lh1", NoChannel) EXCEPT !.non_channel_storage = TRUE]>>),
          Simple(3, "nochannel", 0, 2, NoChannel)>>,
     retry |->
        <<InitLh(1, FALSE),
          Simple(2, "prepare", 0, 1, NoChannel),
          Simple(3, "prepare", 0, 2, NoChannel)>>,
     stale |->
        <<InitLhOne(1, FALSE),
          Task(2, "measure", 0, 1, <<TaskData("lh1", 0)>>)>>,
     cancel |->
        <<InitLhOne(1, TRUE),
          Task(2, "measure", 0, 1, <<TaskData("lh1", 0)>>),
          Task(3, "measure", 0, 1, <<TaskData("lh1", NoChannel)>>)>>,
     resubmit |->
        <<InitLh(1, TRUE),
          Simple(2, "measure", 0, 1, 0),
          Simple(3, "measure", 0, 1, 0),
          Task(4, "init", 0, 0, <<InitData("qcmd1", "qcmd", 1, TRUE, TRUE)>>)>>,
     happy |->
        <<Task(1, "init", 0, 0, <<InitData("qcmd1", "qcmd", 1, TRUE, TRUE)>>),
          Task(2, "measure", 0, 0, <<TaskData("qcmd1", NoChannel)>>),
          Task(3, "nochannel", 0, 2, <<TaskData("qcmd1", NoChannel)>>)>>,
     reinit |->
        <<InitLh(1, TRUE),
          Simple(2, "prepare", 0, 1, NoChannel),
          InitLhOne(3, TRUE)>>,
     twoslots |->
        <<InitLh(1, TRUE),
          Simple(2, "prepare", 0, 1, 0),
          Simple(3, "prepare", 0, 1, 1),
          Simple(4, "measure", 0, 1, NoChannel),
          Simple(5, "measure", 0, 2, NoChannel)>>,
     pinned |->
        <<InitLh(1, TRUE),
          Simple(2, "measure", 0, 1, 0),
          Simple(3, "measure", 0, 2, 0),
          Simple(4, "measure", 0, 3, 2)>>,
     admission |-> <<>>,
     nine |->
        <<Task(1, "init", 0, 0, <<InitData("lh1", "lh", 9, TRUE, TRUE)>>),
          Simple(2, "prepare", 0, 1, NoChannel),
          Simple(3, "prepare", 0, 1, NoChannel),
          Simple(4, "prepare", 0, 1, NoChannel),
          Simple(5, "prepare", 0, 1, NoChannel),
          Simple(6, "prepare", 0, 1, NoChannel),
          Simple(7, "prepare", 0, 1, NoChannel)>>,
     interf |->
        <<InitLhOne(1, FALSE),
          Simple(2, "prepare", 0, 1, 0),
          Simple(3, "prepare", 0, 2, 0),
          Simple(4, "nochannel", 0, 3, NoChannel)>>,
     pausing |->
        <<InitLh(1, TRUE),
          Simple(2, "nochannel", 0, 1, NoChannel),
          Simple(3, "nochannel", 0, 2, NoChannel)>>,
     wipe |->
        <<InitLh(1, TRUE),
          Simple(2, "prepare", 0, 1, NoChannel),
          Simple(3, "nochannel", 0, 2, NoChannel)>>]

\* scripts whose tasks are submitted in the order of the list
Ordered == {"route", "dep", "depid", "selfdep", "interf", "pausing", "wipe", "readout",
            "cancel", "resubmit", "reinit", "twoslots", "pinned",
            "nine", "stale", "moves", "offline", "retry"}

\* the control requests the clients of a script send besides their tasks
Controls ==
    [ids |-> {"reset", "restart", "startup"}, dep |-> {}, depid |-> {}, selfdep |-> {},
     route |-> {}, bands |-> {}, interf |-> {}, pausing |-> {"pause", "resume"},
     wipe |-> {"reset", "restart"}, readout |-> {}, cancel |-> {"cancel"},
     resubmit |-> {"resubmit", "resume"}, happy |-> {}, reinit |-> {"reset"},
     twoslots |-> {}, pinned |-> {}, nine |-> {}, admission |-> {},
     stale |-> {"resubmit", "resume"}, moves |-> {},
     offline |-> {}, retry |-> {}]

ScriptNames == DOMAIN Scripts

\* the tasks a producer may submit next
Submittable ==
    LET left == (1..Len(Scripts[scn])) \ {submitted[k] : k \in 1..Len(submitted)}
    IN  IF Len(submitted) >= MaxPuts THEN {}
        ELSE IF scn \in Ordered THEN {id \in left : \A other \in left : id <= other}
        ELSE left

----------------------------------------------------------------------------
(* The state machine *)

\* the scheduler object as the handlers see it
Scheduler ==
    [queue |-> queue, active_tasks |-> active_tasks, sample_history |-> sample_history,
     devices |-> devices, channel_po |-> channel_po, log |-> <<>>]

\* the scheduler object after a handler
Becomes(st) ==
    /\ queue' = st.queue
    /\ active_tasks' = st.active_tasks
    /\ sample_history' = st.sample_history
    /\ devices' = st.devices
    /\ channel_po' = st.channel_po

Result(op, success, end, task_id, blocked_samples, attempts) ==
    [op |-> op, success |-> success, end |-> end, task |-> task_id,
     blocked |-> blocked_samples, attempts |-> attempts, wiped |-> {},
     request |-> NoTask, flags |-> {}]

\* what a reset did: the ids of the tasks it cleared from the scheduled and
\* the active store
Wiped(op) ==
    [Result(op, TRUE, "", 0, {}, <<>>) EXCEPT
        !.wiped = {t.id : t \in Rows(queue) \cup Rows(active_tasks)}]

Idle == [pc |-> "idle"]

\* autocontrol.__init__ on an empty storage directory; the driver thread
\* starts at the top of its loop
Fresh ==
    /\ queue = <<>>
    /\ active_tasks = <<>>
    /\ sample_history = <<>>
    /\ sample_id_to_number = <<>>
    /\ devices = [d \in DeviceNames |-> NoDevice]
    /\ channel_po = [d \in DeviceNames |-> NoChannelPo]
    /\ paused = FALSE
    /\ submitted = <<>>
    /\ clock = 0
    /\ phase = "update"
    /\ drv = Idle
    /\ resets = 0
    /\ startups = 0
    /\ ret = Result("init", TRUE, "", 0, {}, <<>>)

Init == scn \in ScriptNames /\ Fresh

\* a producer submits the next task of its script (server.task_put)
QueuePut ==
    \E id \in Submittable :
        LET r == queue_put(sample_id_to_number, queue, Scripts[scn][id], clock + 1)
        IN  /\ queue' = r.queue
            /\ sample_id_to_number' = r.sitn
            /\ submitted' = Append(submitted, id)
            /\ clock' = clock + 1
            /\ ret' = [Result("queue_put", r.ok, "", id, {}, <<>>) EXCEPT
                           !.request = Scripts[scn][id]]
            /\ UNCHANGED <<active_tasks, sample_history, devices, channel_po, paused,
                           scn, phase, drv, resets, startups>>

\* a reset that wipes the history too
ResetWithHistory ==
    /\ "reset" \in Controls[scn]
    /\ resets < MaxResets
    /\ queue' = <<>>
    /\ active_tasks' = <<>>
    /\ sample_history' = <<>>
    /\ channel_po' = ClearedChannelPo(channel_po)
    /\ sample_id_to_number' = <<>>
    /\ resets' = resets + 1
    /\ ret' = Wiped("reset")
    /\ UNCHANGED <<devices, paused, scn, submitted, clock, phase, drv, startups>>

Reset ==
    /\ "reset" \in Controls[scn]
    /\ resets < MaxResets
    /\ queue' = <<>>
    /\ active_tasks' = <<>>
    /\ channel_po' = ClearedChannelPo(channel_po)
    /\ sample_id_to_number' = <<>>
    /\ resets' = resets + 1
    /\ ret' = Wiped("reset")
    /\ UNCHANGED <<sample_history, devices, paused, scn, submitted, clock, phase, drv,
                   startups>>

Restart ==
    /\ "restart" \in Controls[scn]
    /\ resets < MaxResets
    /\ queue' = <<>>
    /\ active_tasks' = <<>>
    /\ channel_po' = ClearedChannelPo(channel_po)
    /\ sample_id_to_number' = <<>>
    /\ devices' = [d \in DeviceNames |-> NoDevice]
    /\ resets' = resets + 1
    /\ ret' = Wiped("restart")
    /\ UNCHANGED <<sample_history, paused, scn, submitted, clock, phase, drv, startups>>

\* the process is started again on the same storage directory
Startup ==
    /\ "startup" \in Controls[scn]
    /\ startups < MaxStartups
    /\ sample_id_to_number' = RebuiltMap(queue \o sample_history \o active_tasks, <<>>)
    /\ devices' = [d \in DeviceNames |-> NoDevice]
    /\ channel_po' = [d \in DeviceNames |-> NoChannelPo]
    /\ paused' = FALSE
    /\ phase' = "update"
    /\ drv' = Idle
    /\ startups' = startups + 1
    /\ ret' = Result("startup", TRUE, "", 0, {}, <<>>)
    /\ UNCHANGED <<queue, active_tasks, sample_history, scn, submitted, clock, resets>>

\* server.task_cancel: drop_material is passed on only together with
\* include_active_queue
Cancel ==
    /\ "cancel" \in Controls[scn]
    /\ \E task_id \in {submitted[k] : k \in 1..Len(submitted)},
          include_active \in BOOLEAN, drop_material \in BOOLEAN :
          LET r == queue_cancel(Scheduler, task_id, include_active,
                                include_active /\ drop_material)
          IN  /\ Becomes(r.st)
              /\ ret' = [Result("queue_cancel", r.task # NoTask, "", task_id, {}, <<>>)
                            EXCEPT !.request = r.task,
                                   !.flags = {f \in {"include_active", "drop_material"} :
                                                 \/ f = "include_active" /\ include_active
                                                 \/ /\ f = "drop_material"
                                                    /\ include_active /\ drop_material}]
    /\ UNCHANGED <<sample_id_to_number, paused, scn, submitted, clock, phase, drv,
                   resets, startups>>

\* a replacement that leaves its priority to queue_put
Unprioritized(old_task, task) == [task EXCEPT !.priority = 0]

\* server.task_resubmit: the task that is put in place of old_task.  A task
\* sent with the request gets the old priority; without one the old task is
\* put again as it is.
Replacement(old_task, task) ==
    IF task # NoTask THEN [task EXCEPT !.priority = old_task.priority] ELSE old_task

MaxResubmits == 2

\* the number of times queue_put was called for a task that had been put before
Resubmits == Len(submitted) - Cardinality({submitted[k] : k \in 1..Len(submitted)})

\* server.task_resubmit.  The request pauses the scheduler, cancels the task
\* (active store included, material kept) and puts the replacement.  Both the
\* abort for a task that is not found and the unpacking of the two values of
\* queue_put into four names leave the handler before it resumes the
\* scheduler.  The replacement is the old task as it is, or the task as the
\* producer built it (same id and sample, channels to be determined anew).
Resubmit ==
    /\ "resubmit" \in Controls[scn]
    /\ Resubmits < MaxResubmits
    /\ Len(submitted) < MaxPuts
    /\ \E task_id \in {submitted[k] : k \in 1..Len(submitted)}, rebuilt \in BOOLEAN :
          LET task == IF rebuilt THEN Scripts[scn][task_id] ELSE NoTask
              c == queue_cancel(Scheduler, task_id, TRUE, FALSE)
              r == queue_put(sample_id_to_number, c.st.queue,
                             Replacement(c.task, task), clock + 1)
          IN  IF c.task = NoTask
              THEN /\ ret' = [Result("resubmit", FALSE, "", task_id, {}, <<>>) EXCEPT
                                  !.flags = {"include_active"}]
                   /\ UNCHANGED <<queue, active_tasks, sample_history, devices,
                                  channel_po, sample_id_to_number, submitted, clock>>
              ELSE /\ Becomes([c.st EXCEPT !.queue = r.queue])
                   /\ sample_id_to_number' = r.sitn
                   /\ submitted' = Append(submitted, task_id)
                   /\ clock' = clock + 1
                   /\ ret' = [Result("resubmit", r.ok, "", task_id, {}, <<>>) EXCEPT
                                  !.request = c.task, !.flags = {"include_active"}]
    /\ paused' = TRUE
    /\ UNCHANGED <<scn, phase, drv, resets, startups>>

Pause ==
    /\ "pause" \in Controls[scn]
    /\ paused' = TRUE
    /\ ret' = Result("pause", TRUE, "", 0, {}, <<>>)
    /\ UNCHANGED <<queue, active_tasks, sample_history, sample_id_to_number, devices,
                   channel_po, scn, submitted, clock, phase, drv, resets, startups>>

Resume ==
    /\ "resume" \in Controls[scn]
    /\ paused' = FALSE
    /\ ret' = Result("resume", TRUE, "", 0, {}, <<>>)
    /\ UNCHANGED <<queue, active_tasks, sample_history, sample_id_to_number, devices,
                   channel_po, scn, submitted, clock, phase, drv, resets, startups>>

\* background_task: the first half of an iteration, update_active_tasks
DriverUpdate ==
    /\ phase = "update"
    /\ \E o \in update_active_tasks(Scheduler) :
          /\ Becomes(o.st)
          /\ phase' = IF o.exc THEN "dead" ELSE "dispatch"
          /\ ret' = Result("update_active_tasks", o.collected,
                           IF o.exc THEN "exception" ELSE "", 0, {}, o.polled)
    /\ UNCHANGED <<sample_id_to_number, paused, scn, submitted, clock, drv, resets,
                   startups>>

\* a driver that calls queue_execute_one_item whatever the run control says
DispatchAlways ==
    /\ phase = "dispatch"
    /\ \E o \in queue_execute_one_item(Scheduler) :
          /\ Becomes(o.st)
          /\ phase' = IF o.end = "exception" THEN "dead" ELSE "update"
          /\ ret' = Result("queue_execute_one_item", o.success, o.end, o.task,
                           o.blocked, o.attempts)
    /\ UNCHANGED <<sample_id_to_number, paused, scn, submitted, clock, drv, resets,
                   startups>>

\* background_task: the second half, queue_execute_one_item unless paused
DriverDispatch ==
    /\ phase = "dispatch"
    /\ IF paused
       THEN /\ Becomes(Scheduler)
            /\ phase' = "update"
            /\ ret' = Result("not_executed", FALSE, "paused", 0, {}, <<>>)
       ELSE \E o \in queue_execute_one_item(Scheduler) :
               /\ Becomes(o.st)
               /\ phase' = IF o.end = "exception" THEN "dead" ELSE "update"
               /\ ret' = Result("queue_execute_one_item", o.success, o.end, o.task,
                                o.blocked, o.attempts)
    /\ UNCHANGED <<sample_id_to_number, paused, scn, submitted, clock, drv, resets,
                   startups>>

\* a producer submits a task it builds on the spot: any of a few sample ids
\* (0 is none) with any of a few sample numbers (0 is none)
SampleIds == {0, 11, 12}

SampleNumbers == {0, 1, 2, 3}

MaxSubmissions == 3

Submit ==
    /\ Len(submitted) < MaxSubmissions
    /\ \E sample_id \in SampleIds, sample_number \in SampleNumbers :
          LET id == Len(submitted) + 1
              task == Simple(id, "nochannel", sample_id, sample_number, NoChannel)
              r == queue_put(sample_id_to_number, queue, task, clock + 1)
          IN  /\ queue' = r.queue
              /\ sample_id_to_number' = r.sitn
              /\ submitted' = Append(submitted, id)
              /\ clock' = clock + 1
              /\ ret' = [Result("queue_put", r.ok, "", id, {}, <<>>) EXCEPT
                             !.request = task]
    /\ UNCHANGED <<active_tasks, sample_history, devices, channel_po, paused,
                   scn, phase, drv, resets, startups>>

InitProducers == scn = "ids" /\ Fresh

NextProducers ==
    \/ Submit
    \/ Reset

SpecProducers == InitProducers /\ [][NextProducers]_vars

Next ==
    \/ QueuePut
    \/ Reset
    \/ Restart
    \/ Startup
    \/ Cancel
    \/ Resubmit
    \/ Pause
    \/ Resume
    \/ DriverUpdate
    \/ DriverDispatch

Spec == Init /\ [][Next]_vars

----------------------------------------------------------------------------
(* The driver thread as the other threads see it.  A handler takes the     *)
(* lock of a store for one store operation at a time, so between two of    *)
(* its store operations a status query reads the stores as they are.  The  *)
(* producers submit between two handler calls.                             *)

\* a store after one store operation of the running handler
StoreAfter(name, store, op) ==
    IF op.store # name THEN store
    ELSE IF op.op = "put" THEN put(store, op.task)
    ELSE remove(store, op.task.id)

\* the occupancy table after one operation of the running handler
ChannelPoAfter(cpo, op) ==
    IF op.store # "channel_po" THEN cpo
    ELSE IF op.op = "slots"
    THEN [cpo EXCEPT ![op.device] =
             [present |-> TRUE, slots |-> [c \in 1..op.noc |-> EmptySlot]]]
    ELSE [cpo EXCEPT ![op.device].slots[op.channel + 1] = op.slot]

\* the driver enters a handler that will end as o: it stays inside for as
\* long as store operations are left
Enter(o, next_phase, result) ==
    IF o.st.log = <<>>
    THEN /\ Becomes(o.st)
         /\ phase' = next_phase
         /\ ret' = result
         /\ drv' = Idle
    ELSE /\ drv' = [pc |-> "running", ops |-> o.st.log, devices |-> o.st.devices,
                    phase |-> next_phase, ret |-> result]
         /\ UNCHANGED <<queue, active_tasks, sample_history, devices, channel_po,
                        phase, ret>>

ThreadUpdate ==
    /\ phase = "update"
    /\ drv = Idle
    /\ \E o \in update_active_tasks(Scheduler) :
          Enter(o, IF o.exc THEN "dead" ELSE "dispatch",
                Result("update_active_tasks", o.collected,
                       IF o.exc THEN "exception" ELSE "", 0, {}, o.polled))
    /\ UNCHANGED <<sample_id_to_number, paused, scn, submitted, clock, resets, startups>>

ThreadDispatch ==
    /\ phase = "dispatch"
    /\ drv = Idle
    /\ IF paused
       THEN /\ Becomes(Scheduler)
            /\ phase' = "update"
            /\ ret' = Result("not_executed", FALSE, "paused", 0, {}, <<>>)
            /\ drv' = Idle
       ELSE \E o \in queue_execute_one_item(Scheduler) :
               Enter(o, IF o.end = "exception" THEN "dead" ELSE "update",
                     Result("queue_execute_one_item", o.success, o.end, o.task,
                            o.blocked, o.attempts))
    /\ UNCHANGED <<sample_id_to_number, paused, scn, submitted, clock, resets, startups>>

\* the next store operation of the running handler; the handler returns
\* after its last one
ThreadStep ==
    /\ drv # Idle
    /\ queue' = StoreAfter("queue", queue, Head(drv.ops))
    /\ active_tasks' = StoreAfter("active_tasks", active_tasks, Head(drv.ops))
    /\ sample_history' = StoreAfter("sample_history", sample_history, Head(drv.ops))
    /\ channel_po' = ChannelPoAfter(channel_po, Head(drv.ops))
    /\ IF Len(drv.ops) = 1
       THEN /\ devices' = drv.devices
            /\ phase' = drv.phase
            /\ ret' = drv.ret
            /\ drv' = Idle
       ELSE /\ drv' = [drv EXCEPT !.ops = Tail(@)]
            /\ UNCHANGED <<devices, phase, ret>>
    /\ UNCHANGED <<sample_id_to_number, paused, scn, submitted, clock, resets, startups>>

ThreadQueuePut == drv = Idle /\ QueuePut

\* server.reset runs on the thread of its request, whatever the driver
\* thread is doing
ThreadReset == Reset

InitThreads == scn \in {"pausing", "depid", "wipe"} /\ Fresh

NextThreads ==
    \/ ThreadQueuePut
    \/ ThreadUpdate
    \/ ThreadDispatch
    \/ ThreadStep
    \/ ThreadReset

SpecThreads == InitThreads /\ [][NextThreads]_vars

----------------------------------------------------------------------------
(* Properties *)

AllTasks == Rows(queue) \cup Rows(active_tasks) \cup Rows(sample_history)

\* the (sample_id, sample_number) pairs of the three stores and of the map
Bindings ==
    {<<t.sample_id, t.sample_number>> : t \in AllTasks}
        \cup {<<sample_id_to_number[k].sample_id, sample_id_to_number[k].sample_number>>
               : k \in 1..Len(sample_id_to_number)}

Bijective(pairs) == \A p, q \in pairs : (p[1] = q[1]) <=> (p[2] = q[2])

\* C1 as stated: in every reachable state, reset, restart and start-up
\* included, the bindings of the three stores and of the map form a
\* bijection between sample ids and sample numbers.
C1_BijectionAlways == Bijective(Bindings)

\* C1, amended: in every state reached without a reset or restart (start-up
\* rebuilds included) the bindings of the three stores and of the map form a
\* bijection; after a reset or restart the map alone is still a bijection
\* until the next start-up rebuilds it from the stores.
C1_BijectionUntilReset ==
    /\ resets = 0 => Bijective(Bindings)
    /\ startups = 0 =>
          Bijective({<<sample_id_to_number[k].sample_id, sample_id_to_number[k].sample_number>>
                     : k \in 1..Len(sample_id_to_number)})

\* three samples are bound, tasks sit in the queue and in the history, the
\* map was rebuilt by a start-up, and no reset has happened
C1_Witness ==
    /\ resets = 0
    /\ startups = 1
    /\ Cardinality(Bindings) >= 3
    /\ queue # <<>>
    /\ sample_history # <<>>

Ids(store) == {t.id : t \in Rows(store)}

\* the number of stores that hold the task
Holding(id) ==
    (IF id \in Ids(queue) THEN 1 ELSE 0)
        + (IF id \in Ids(active_tasks) THEN 1 ELSE 0)
        + (IF id \in Ids(sample_history) THEN 1 ELSE 0)

\* C2: at every moment another thread can observe, a task that queue_put has
\* accepted and no reset has wiped is in exactly one of the three stores:
\* never in two of them, and never in none of them once it was in one.
C2_ExactlyOneStore ==
    /\ [](\A id \in 1..MaxPuts : Holding(id) <= 1)
    /\ [][\A id \in 1..MaxPuts :
             (Holding(id) >= 1 /\ resets' = resets) => Holding(id)' >= 1]_vars

\* the last operation was a call of queue_execute_one_item
Executed(r) == r.op = "queue_execute_one_item"

\* ... that moved a task to the active store
Dispatched(r) == Executed(r) /\ r.end = "dispatched"

AttemptsOf(r) == {r.attempts[k] : k \in 1..Len(r.attempts)}

\* the tasks a call handed to a device
SentIds(r) == {a.id : a \in {b \in AttemptsOf(r) : b.sent}}

\* the type of the task a call dispatched
DispatchedType(r) == r.attempts[Len(r.attempts)].task_type

\* the band of a task type: 1 init, 2 sample work, 3 shutdown
Band(task_type) ==
    IF task_type = "init" THEN 1 ELSE IF task_type = "shutdown" THEN 3 ELSE 2

\* the (device, channel) pairs a task names
Channels(task) ==
    {<<task.tasks[k].device, task.tasks[k].channel>>
     : k \in {j \in 1..Len(task.tasks) : task.tasks[j].channel # NoChannel}}

ActiveChannels == UNION {Channels(a) : a \in Rows(active_tasks)}

\* C3, first half: no two distinct tasks of the active store name the same
\* (device, channel) with a channel that is not null.
NoSharedChannel ==
    \A i, j \in 1..Len(active_tasks) :
        i # j => Channels(active_tasks[i]) \cap Channels(active_tasks[j]) = {}

\* C3, second half: a scheduled task that names a (device, channel) an active
\* task uses is not dispatched by a call of queue_execute_one_item; it stays
\* scheduled and, once the call has tried it, its sample number is blocked
\* for the rest of the call.
InterferingStaysScheduled ==
    \A t \in Rows(queue) :
        (Channels(t) \cap ActiveChannels # {} /\ Executed(ret'))
            => /\ t.id \notin Ids(active_tasks')
               /\ t.id \in Ids(queue')
               /\ t.id \notin SentIds(ret')
               /\ \A a \in AttemptsOf(ret') :
                     a.id = t.id => t.sample_number \in ret'.blocked

\* C3: in every reachable state no two distinct active tasks share a
\* (device, channel), and an interfering candidate is not dispatched, stays
\* scheduled and has its sample number blocked for the rest of the cycle.
C3_NoInterference == []NoSharedChannel /\ [][InterferingStaysScheduled]_vars

\* a call has refused a candidate because an active task uses its channel
C3_Witness ==
    /\ Executed(ret)
    /\ \E a \in AttemptsOf(ret) :
          /\ a.response = "Waiting for ongoing task."
          /\ a.sample_number \in ret.blocked
          /\ \E t \in Rows(queue) : t.id = a.id /\ Channels(t) \cap ActiveChannels # {}

\* the dependency of a scheduled task is still in the scheduled store
DependencyPending(t) ==
    \/ /\ t.dependency_sample_number # 0
       /\ \E u \in Rows(queue) : u.sample_number = t.dependency_sample_number
    \/ /\ t.dependency_id # 0
       /\ \E u \in Rows(queue) : u.id = t.dependency_id

\* C4: a task with dependency_sample_number = n (or dependency_id = d) is
\* not moved to the active store and not sent to a device by any step taken
\* while a task with sample number n (or the task with id d) is scheduled.
C4_DependencyGating ==
    [][\A t \in Rows(queue) :
          DependencyPending(t)
              => t.id \notin Ids(active_tasks') /\ t.id \notin SentIds(ret')]_vars

\* a call ended on a dependency by id after an earlier gated task had been
\* dispatched, or on a dependency by sample number with a gated task done
C4_Witness ==
    /\ Executed(ret)
    /\ ret.end = "dependency"
    /\ \E t \in Rows(queue) : t.id = ret.task /\ DependencyPending(t)
    /\ \/ \E t \in Rows(queue) : t.id = ret.task /\ t.dependency_id # 0
       \/ \E h \in Rows(sample_history) : h.dependency_sample_number # 0

\* The dependency scripts under a fair driver loop: background_task runs its
\* two calls for ever, the producers may stop at any time.
InitDependencies == scn \in {"dep", "selfdep"} /\ Fresh

NextDriven ==
    \/ QueuePut
    \/ DriverUpdate
    \/ DriverDispatch

SpecFair ==
    /\ InitDependencies
    /\ [][NextDriven]_vars
    /\ WF_vars(DriverUpdate)
    /\ WF_vars(DriverDispatch)

Independent(t) == t.dependency_id = 0 /\ t.dependency_sample_number = 0

\* the devices of the task are registered and always ready, and no active
\* task uses its channels
Free(t) ==
    /\ \A k \in 1..Len(t.tasks) : /\ devices[t.tasks[k].device].registered
                                  /\ devices[t.tasks[k].device].simulated
    /\ Channels(t) \cap ActiveChannels = {}

\* C5 as stated: whenever a call ends on an unresolved dependency, every
\* other scheduled task without a dependency whose devices and channels are
\* free is dispatched in a later cycle.
C5_StarvedOneTickOnly ==
    \A id \in 1..MaxPuts :
        (/\ Executed(ret)
         /\ ret.end = "dependency"
         /\ id # ret.task
         /\ \E t \in Rows(queue) : t.id = id /\ Independent(t) /\ Free(t))
            ~> (id \in Ids(active_tasks) \cup Ids(sample_history))

\* C5, amended: a call that ends on an unresolved dependency dispatches
\* nothing, and as long as a scheduled task has an unresolved dependency and
\* its sample number is not blocked, a call dispatches only a task of a
\* higher band, or of the same band and a higher priority.  The tasks behind
\* the gated task wait for as long as the dependency is scheduled.
C5_StarvedUntilResolved ==
    [][/\ (Executed(ret') /\ ret'.end = "dependency")
            => Ids(active_tasks') = Ids(active_tasks) /\ Ids(queue') = Ids(queue)
       /\ \A t \in Rows(queue) :
             (DependencyPending(t) /\ Dispatched(ret')
                 /\ t.sample_number \notin ret'.blocked)
                 => \E d \in Rows(active_tasks') :
                       /\ d.id = ret'.task
                       /\ Band(d.task_type) <= Band(t.task_type)
                       /\ Band(d.task_type) = Band(t.task_type)
                              => d.priority > t.priority]_vars

\* a call ended on a dependency that cannot resolve (the gated task depends
\* on its own sample number or on a task of lower priority) while a free
\* task without a dependency waits behind the gated one
C5_Witness ==
    /\ Executed(ret)
    /\ ret.end = "dependency"
    /\ \E t, u \in Rows(queue) :
          /\ t.id = ret.task
          /\ \E v \in Rows(queue) :
                /\ v.sample_number = t.dependency_sample_number
                /\ v.priority <= t.priority
          /\ u.id # t.id
          /\ Independent(u)
          /\ Free(u)
          /\ u.priority < t.priority

\* the devices on the projected path of a scheduled task
OnRoute(t) ==
    {e[2] : e \in get_future_devices(queue, t.sample_number, t.tasks[1].device,
                                     t.tasks[1].channel)}

\* the path of the task crosses a device without sample mixing that has too
\* few channels for the samples between the lowest scheduled one and this one
Oversubscribes(t) ==
    /\ t.task_type \notin {"init", "shutdown"}
    /\ \E d \in OnRoute(t) :
          /\ devices[d].registered
          /\ ~devices[d].sample_mixing
          /\ t.sample_number - get_lowest_sample_number(queue)
                 > devices[d].number_of_channels - 1

\* C6: a scheduled task whose projected path crosses a non-mixing device with
\* K channels, and whose sample number exceeds the lowest scheduled sample
\* number by more than K - 1, is not dispatched.
C6_RouteBlock ==
    [][\A t \in Rows(queue) : Oversubscribes(t) => t.id \notin Ids(active_tasks')]_vars

\* C7 as stated: no task of band 2 is dispatched by a call during which an
\* init task is scheduled.
C7_InitFirst ==
    [][((\E t \in Rows(queue) : t.task_type = "init") /\ Dispatched(ret'))
          => DispatchedType(ret') = "init"]_vars

\* C7, amended: a call during which an init task is scheduled dispatches a
\* task of another band only if, for every scheduled init task, the call has
\* tried an init task of that sample number before and it has failed.
C7_InitFirstUnlessFailed ==
    [][(Dispatched(ret') /\ DispatchedType(ret') # "init")
          => \A t \in Rows(queue) :
                t.task_type = "init"
                    => \E a \in AttemptsOf(ret') : /\ a.task_type = "init"
                                                   /\ ~a.ok
                                                   /\ a.sample_number = t.sample_number]_vars

\* a call has dispatched a task of band 2 after an init task failed, and the
\* init task is still scheduled
C7_Witness ==
    /\ Dispatched(ret)
    /\ DispatchedType(ret) # "init"
    /\ \E t \in Rows(queue) : t.task_type = "init"

\* C8: a call made while a task of band 1 or 2 is scheduled neither sends a
\* shutdown task to a device nor moves one to the active store.
C8_ShutdownLast ==
    [][(\E t \in Rows(queue) : t.task_type # "shutdown")
          => \A a \in AttemptsOf(ret') :
                a.task_type = "shutdown" => ~a.sent /\ a.id \notin Ids(active_tasks')]_vars

\* the place of a task in the order of submission
Submission_index(id) == CHOOSE k \in 1..Len(submitted) : submitted[k] = id

\* C9: of two scheduled tasks of the same sample number and the same band
\* whose priorities queue_put has assigned, the one submitted later is not
\* dispatched while the one submitted earlier is scheduled.
C9_FifoWithinSample ==
    [][\A t, u \in Rows(queue) :
          (/\ t.sample_number = u.sample_number
           /\ Band(t.task_type) = Band(u.task_type)
           /\ Submission_index(t.id) < Submission_index(u.id))
              => u.id \notin Ids(active_tasks')]_vars

\* the earlier of two tasks of a sample has failed and stays scheduled with
\* the later one, and the call has dispatched nothing of that sample
C9_Witness ==
    /\ Executed(ret)
    /\ \E t, u \in Rows(queue) :
          /\ t.sample_number = u.sample_number
          /\ Band(t.task_type) = Band(u.task_type)
          /\ Submission_index(t.id) < Submission_index(u.id)
          /\ \E a \in AttemptsOf(ret) : a.id = t.id /\ ~a.ok
    /\ \E h, g \in Rows(sample_history) :
          /\ h.id # g.id
          /\ h.sample_number = g.sample_number
          /\ Band(h.task_type) = Band(g.task_type)

\* C10: a step taken while the scheduler is paused is no call of
\* queue_execute_one_item and moves no task to the active store; the driver
\* calls update_active_tasks in every iteration, paused or not, and calls
\* queue_execute_one_item in every iteration that reads paused = false.
C10_PauseGatesDispatchOnly ==
    [][/\ paused => ~Executed(ret') /\ Ids(active_tasks') \subseteq Ids(active_tasks)
       /\ (phase = "update" /\ phase' \in {"dispatch", "dead"})
             => ret'.op = "update_active_tasks"
       /\ (phase = "dispatch" /\ phase' \in {"update", "dead"} /\ ~paused
              /\ startups' = startups)
             => Executed(ret')]_vars

\* paused, the driver has moved a completed task to the history
C10_Witness ==
    /\ paused
    /\ ret.op = "update_active_tasks"
    /\ ret.success
    /\ queue # <<>>

\* after a resume, the driver has dispatched a task that was scheduled during
\* the pause
C10_WitnessResumed ==
    /\ ~paused
    /\ Dispatched(ret)
    /\ \E k \in 1..Len(submitted) : submitted[k] = ret.task

----------------------------------------------------------------------------
\* C11: the history is append-only.  Every step of the scheduler (dispatch,
\* collection, queue_put, reset, restart, start-up) keeps the rows of the
\* history store in place and at most appends rows to them.
C11_HistoryAppendOnly ==
    [][/\ Len(sample_history') >= Len(sample_history)
       /\ SubSeq(sample_history', 1, Len(sample_history)) = sample_history]_vars

\* a reset or restart has run on a history that holds collected tasks
C11_Witness ==
    /\ ret.op \in {"reset", "restart"}
    /\ Len(sample_history) >= 2

\* the occupancy table has only empty slots
AllSlotsEmpty(cpo) ==
    \A d \in DeviceNames : \A c \in 1..Len(cpo[d].slots) : cpo[d].slots[c] = EmptySlot

\* C12: a reset leaves the scheduled and the active store empty, every slot
\* of every occupancy list empty with the lists as long as before, and the
\* sample-id map empty; the history and the device registry are unchanged.
\* A restart does the same and empties the device registry.
C12_ResetFrame ==
    [][resets' # resets =>
          /\ ret'.op \in {"reset", "restart"}
          /\ queue' = <<>>
          /\ active_tasks' = <<>>
          /\ sample_id_to_number' = <<>>
          /\ AllSlotsEmpty(channel_po')
          /\ \A d \in DeviceNames :
                /\ channel_po'[d].present = channel_po[d].present
                /\ Len(channel_po'[d].slots) = Len(channel_po[d].slots)
          /\ sample_history' = sample_history
          /\ ret'.op = "reset" => devices' = devices
          /\ ret'.op = "restart" => \A d \in DeviceNames : ~devices'[d].registered]_vars

\* a reset has wiped the last task of the script "wipe" after the prepare
\* task was collected into a slot of lh1
C12_Witness ==
    /\ scn = "wipe"
    /\ ret.op = "reset"
    /\ Len(submitted) = 3
    /\ {t.id : t \in Rows(sample_history)} = {1, 2}
    /\ Len(channel_po["lh1"].slots) = 2
    /\ devices["lh1"].registered

\* C13: a reset that runs while the driver thread is inside
\* queue_execute_one_item or update_active_tasks takes effect as if it ran
\* alone: when the handler has finished, no task the reset cleared from the
\* scheduled or the active store is in either of them, and every slot of
\* the occupancy table is empty.
C13_ResetSerializes ==
    [][(drv # Idle /\ drv' = Idle /\ ret.op = "reset") =>
          /\ \A t \in Rows(queue') \cup Rows(active_tasks') : t.id \notin ret.wiped
          /\ AllSlotsEmpty(channel_po')]_vars

----------------------------------------------------------------------------
(* queue_put: the steps of the producers *)

\* the step is a call of queue_put
PutStep == ret'.op = "queue_put" /\ submitted' # submitted

Accepted == /\ ret'.success
            /\ Len(queue') = Len(queue) + 1
            /\ SubSeq(queue', 1, Len(queue)) = queue

Refused == /\ ~ret'.success
           /\ queue' = queue
           /\ sample_id_to_number' = sample_id_to_number

\* the task a call of queue_put has enqueued
Enqueued == queue'[Len(queue')]

\* C14: a task that names both a sample id and a sample number is accepted
\* iff both are new to the map or the map binds the id to that number; in
\* every other case queue_put returns failure, the scheduled store and the
\* map stay as they are.
C14_BothMustMatch ==
    [][(PutStep /\ ret'.request.sample_id # 0 /\ ret'.request.sample_number # 0) =>
          LET sample_id == ret'.request.sample_id
              sample_number == ret'.request.sample_number
              both_new == /\ sample_id \notin MapKeys(sample_id_to_number)
                          /\ sample_number \notin MapValues(sample_id_to_number)
              bound == \E k \in 1..Len(sample_id_to_number) :
                          sample_id_to_number[k] =
                              [sample_id |-> sample_id, sample_number |-> sample_number]
          IN  IF both_new \/ bound
              THEN /\ Accepted
                   /\ Enqueued.sample_id = sample_id
                   /\ Enqueued.sample_number = sample_number
              ELSE Refused]_vars

\* queue_put has refused a known sample id that came with another number
C14_Witness ==
    /\ ret.op = "queue_put"
    /\ ~ret.success
    /\ ret.request.sample_id \in MapKeys(sample_id_to_number)
    /\ ret.request.sample_number # 0
    /\ ret.request.sample_number \notin MapValues(sample_id_to_number)

\* queue_put has refused a new sample id that came with a bound number
C14_WitnessBoundNumber ==
    /\ ret.op = "queue_put"
    /\ ~ret.success
    /\ ret.request.sample_id # 0
    /\ ret.request.sample_id \notin MapKeys(sample_id_to_number)
    /\ ret.request.sample_number \in MapValues(sample_id_to_number)

\* C15: a task that names a sample id and no sample number is accepted with
\* the number the map binds to its id, else with 1 if the map is empty, else
\* with the greatest number of the map plus one; the map binds that number
\* to no other sample id.
C15_NumberForSampleId ==
    [][(PutStep /\ ret'.request.sample_id # 0 /\ ret'.request.sample_number = 0) =>
          LET sample_id == ret'.request.sample_id
              numbers == MapValues(sample_id_to_number)
              known == {sample_id_to_number[k].sample_number :
                           k \in {j \in 1..Len(sample_id_to_number) :
                                      sample_id_to_number[j].sample_id = sample_id}}
          IN  /\ Accepted
              /\ Enqueued.sample_id = sample_id
              /\ IF known # {} THEN Enqueued.sample_number \in known
                 ELSE IF numbers = {} THEN Enqueued.sample_number = 1
                 ELSE /\ Enqueued.sample_number - 1 \in numbers
                      /\ \A n \in numbers : n < Enqueued.sample_number
              /\ \A k \in 1..Len(sample_id_to_number) :
                    sample_id_to_number[k].sample_number = Enqueued.sample_number
                        => sample_id_to_number[k].sample_id = sample_id
              /\ \E k \in 1..Len(sample_id_to_number') :
                    sample_id_to_number'[k] =
                        [sample_id |-> sample_id, sample_number |-> Enqueued.sample_number]]_vars

\* a new sample id has got the number after the greatest one of a map whose
\* numbers have a gap
C15_Witness ==
    /\ ret.op = "queue_put"
    /\ ret.success
    /\ ret.request.sample_id = 12
    /\ ret.request.sample_number = 0
    /\ sample_id_to_number =
           <<[sample_id |-> 11, sample_number |-> 3], [sample_id |-> 12, sample_number |-> 4]>>

\* the sample ids of the map and of the stored tasks
KnownSampleIds == MapKeys(sample_id_to_number) \cup {t.sample_id : t \in AllTasks}

\* C16 as stated: a task with neither sample id nor sample number is
\* accepted with sample number 1 and a sample id that neither the map nor a
\* stored task had, whether or not the map binds the number 1.
C16_AlwaysFreshId ==
    [][(PutStep /\ ret'.request.sample_id = 0 /\ ret'.request.sample_number = 0) =>
          /\ Accepted
          /\ Enqueued.sample_number = 1
          /\ Enqueued.sample_id # 0
          /\ Enqueued.sample_id \notin KnownSampleIds]_vars

\* C16, amended: a task with neither sample id nor sample number is accepted
\* with sample number 1; its sample id is the one the map binds to 1 if
\* there is one, and else an id that neither the map nor a stored task had.
C16_FreshIdUnlessBound ==
    [][(PutStep /\ ret'.request.sample_id = 0 /\ ret'.request.sample_number = 0) =>
          LET bound == {sample_id_to_number[k].sample_id :
                           k \in {j \in 1..Len(sample_id_to_number) :
                                      sample_id_to_number[j].sample_number = 1}}
          IN  /\ Accepted
              /\ Enqueued.sample_number = 1
              /\ Enqueued.sample_id # 0
              /\ IF bound # {} THEN Enqueued.sample_id \in bound
                 ELSE Enqueued.sample_id \notin KnownSampleIds]_vars

\* a task with neither has got the sample id a producer had bound to 1
C16_Witness ==
    /\ ret.op = "queue_put"
    /\ ret.success
    /\ ret.request.sample_id = 0
    /\ ret.request.sample_number = 0
    /\ Len(queue) >= 2
    /\ queue[Len(queue)].sample_number = 1
    /\ queue[Len(queue)].sample_id \in SampleIds

----------------------------------------------------------------------------
(* Failures at the instrument *)

FailedAtInstrument == "Task failed at instrument."

\* the step is a call of queue_execute_one_item by the driver
DispatchStep == phase = "dispatch" /\ Executed(ret')

\* C17: when a sub-task's execute_task returns a status other than success,
\* the task is not put into the active store, it stays in the scheduled
\* store with the response noted, the call does not count it as dispatched
\* (if the call returns true, it dispatched another task), and no task of
\* its sample number is tried in the rest of the call.
C17_InstrumentFailure ==
    [][DispatchStep =>
          \A k \in 1..Len(ret'.attempts) :
              LET a == ret'.attempts[k]
              IN  (a.sent /\ a.device_response = FailedAtInstrument) =>
                     /\ ~a.ok
                     /\ a.id \notin Ids(active_tasks')
                     /\ \E t \in Rows(queue') :
                           /\ t.id = a.id
                           /\ t.device_response = FailedAtInstrument
                     /\ a.sample_number \in ret'.blocked
                     /\ \A j \in (k + 1)..Len(ret'.attempts) :
                           ret'.attempts[j].sample_number # a.sample_number
                     /\ ret'.success => ret'.task # a.id]_vars

\* a call in which a task failed at its instrument and a task of another
\* sample number was dispatched
C17_Witness ==
    /\ Dispatched(ret)
    /\ \E a \in AttemptsOf(ret) :
          /\ a.sent
          /\ a.device_response = FailedAtInstrument
          /\ \E t \in Rows(queue) : t.id = a.id

\* C18: a task whose dispatch failed at the instrument is not handed to a
\* device again by the driver: no later call of queue_execute_one_item
\* sends a task that is scheduled with the response of such a failure.
C18_NoRetry ==
    [][DispatchStep =>
          \A t \in Rows(queue) :
              t.device_response = FailedAtInstrument => t.id \notin SentIds(ret')]_vars

----------------------------------------------------------------------------
(* Failed requests *)

\* the step is a call of update_active_tasks by the driver
UpdateStep == phase = "update" /\ ret'.op = "update_active_tasks"

\* the responses of a failed status request at admission, of a failed status
\* request while polling, and of a failed read-out of a finished measurement
StatusFailedAtAdmission == "Could not get status from device."

StatusFailedAtPolling == "Waiting. Status request unsuccesful"

ReadoutFailed ==
    {"Cannot get status from device.", "Device busy or down.",
     "Failure reading measurement data."}

\* C19: a request that does not succeed never makes the scheduler drop a
\* task.  A task whose status query fails at admission stays in the
\* scheduled store; a task whose status query fails while it is polled, or
\* whose device status or read fails after its measurement has finished,
\* stays in the active store with the response noted, and the next call of
\* update_active_tasks polls every task of the active store again; in none
\* of these cases is the task in the history or in no store.
C19_NeverDropped ==
    [][/\ DispatchStep =>
             \A a \in AttemptsOf(ret') :
                 (~a.sent /\ a.response = StatusFailedAtAdmission) =>
                     /\ a.id \in Ids(queue')
                     /\ a.id \notin Ids(active_tasks') \cup Ids(sample_history')
       /\ UpdateStep =>
             /\ \A a \in AttemptsOf(ret') :
                    a.response \in {StatusFailedAtPolling} \cup ReadoutFailed =>
                        /\ ~a.ok
                        /\ a.id \notin Ids(queue') \cup Ids(sample_history')
                        /\ \E t \in Rows(active_tasks') :
                              t.id = a.id /\ t.execution_response = a.response
             /\ ret'.end # "exception" =>
                    Ids(active_tasks) = {a.id : a \in AttemptsOf(ret')}]_vars

\* a measurement that had finished could not be read out and is still in
\* the active store with that response
C19_Witness ==
    /\ ret.op = "update_active_tasks"
    /\ \E a \in AttemptsOf(ret) :
          /\ a.task_type = "measure"
          /\ a.response = "Failure reading measurement data."
          /\ \E t \in Rows(active_tasks) :
                t.id = a.id /\ t.tasks[1].done /\ t.execution_response = a.response

\* a status query has failed at admission and the task is still scheduled
C19_WitnessAdmission ==
    /\ Executed(ret)
    /\ \E a \in AttemptsOf(ret) :
          ~a.sent /\ a.response = StatusFailedAtAdmission /\ a.id \in Ids(queue)

\* a status query has failed while a task was polled
C19_WitnessPolling ==
    /\ ret.op = "update_active_tasks"
    /\ \E a \in AttemptsOf(ret) :
          a.response = StatusFailedAtPolling /\ a.id \in Ids(active_tasks)

----------------------------------------------------------------------------
(* Cancellation *)

\* the step is a request to cancel a task
CancelStep == ret'.op = "queue_cancel" /\ ret'.task # 0

\* the slots <<device, channel>> that refer to the task
SlotsOf(cpo, task_id) ==
    {<<d, c>> \in DeviceNames \X (0..3) :
        c < Len(cpo[d].slots) /\ cpo[d].slots[c + 1].id = task_id}

\* the slots <<device, channel>> that hold the sample number
SlotsOfSample(cpo, sample_number) ==
    {<<d, c>> \in DeviceNames \X (0..3) :
        c < Len(cpo[d].slots) /\ cpo[d].slots[c + 1].sample_number = sample_number}

PreSubmissionFailures ==
    {"Unknown device", "Could not get status from device.", "Waiting. Device status.",
     "Waiting. Channel status."}

C20_WitnessRejected ==
    /\ scn = "cancel"
    /\ Holding(2) = 0
    /\ Executed(ret)
    /\ \E a \in AttemptsOf(ret) : a.id = 3 /\ a.response = "Did not find the sample."
    /\ channel_po["lh1"].present
    /\ AllSlotsEmpty(channel_po)

\* a request without include_active has left a measure task in the active
\* store
C20_WitnessKept ==
    /\ scn = "cancel"
    /\ ret.op = "queue_cancel"
    /\ ~ret.success
    /\ ret.flags = {}
    /\ ret.task \in Ids(active_tasks)

----------------------------------------------------------------------------
\* the tasks queue_put was called for more than once: the resubmitted ones
Resubmitted ==
    {id \in 1..MaxPuts :
        Cardinality({k \in 1..Len(submitted) : submitted[k] = id}) >= 2}

\* the place of the first submission of a task in the order of submission
FirstSubmission(id) ==
    CHOOSE k \in 1..Len(submitted) :
        submitted[k] = id /\ \A h \in 1..(k - 1) : submitted[h] # id

ResubmitStep == ret'.op = "resubmit" /\ ret'.success

\* a resubmission puts the replacement in the scheduled store with the
\* priority of the task it cancelled
KeepsPriority ==
    ResubmitStep
        => /\ ret'.request.id \in Ids(queue) \cup Ids(active_tasks)
           /\ ret'.task \in Ids(queue')
           /\ ret'.task \notin Ids(active_tasks')
           /\ get_task_by_id(queue', ret'.task).priority = ret'.request.priority

----------------------------------------------------------------------------
(* The happy-path script under a fair driver loop *)

InitHappy == scn = "happy" /\ Fresh

SpecHappy ==
    /\ InitHappy
    /\ [][NextDriven]_vars
    /\ WF_vars(DriverUpdate)
    /\ WF_vars(DriverDispatch)


\* the measure of the happy-path script and the slots of its device
HappyMeasure == Scripts["happy"][2].id

HappySlots == channel_po["qcmd1"].slots

InitCollected == 1 \in Ids(sample_history)

\* the last call of queue_execute_one_item turned the measure down because
\* no slot holds its sample
MeasureNotFound ==
    /\ Executed(ret)
    /\ \E a \in AttemptsOf(ret) :
          /\ a.id = HappyMeasure
          /\ ~a.ok
          /\ ~a.sent
          /\ a.response = "Did not find the sample."

\* C22 as stated: the measure gets sample number 1 and, once the init is
\* collected and the measure is scheduled, eventually is in the history and
\* is the occupant of slot 0 of qcmd1.
C22_HappyPath ==
    /\ [](\A t \in AllTasks : t.id = HappyMeasure => t.sample_number = 1)
    /\ (InitCollected /\ HappyMeasure \in Ids(queue))
          ~> (/\ HappyMeasure \in Ids(sample_history)
              /\ HappySlots # <<>>
              /\ HappySlots[1].id = HappyMeasure)

\* C22, amended: the measure gets sample number 1 but is never dispatched:
\* it is in neither the active store nor the history in any state, the slots
\* of qcmd1 stay empty, and once the init is collected and the measure is
\* scheduled every later call of queue_execute_one_item turns it down
\* because no slot holds sample 1.
C22_MeasureNeverAdmitted ==
    /\ [](\A t \in AllTasks : t.id = HappyMeasure => t.sample_number = 1)
    /\ [](HappyMeasure \notin Ids(active_tasks) \cup Ids(sample_history))
    /\ [](\A c \in 1..Len(HappySlots) : HappySlots[c] = EmptySlot)
    /\ (InitCollected /\ HappyMeasure \in Ids(queue)) ~> MeasureNotFound
    /\ [][(InitCollected /\ HappyMeasure \in Ids(queue) /\ Executed(ret'))
             => MeasureNotFound']_vars

\* the init is collected, the measure has been turned down and is scheduled
\* with sample number 1, slot 0 is empty, and the driver has meanwhile
\* served the task of another sample
C22_Witness ==
    /\ InitCollected
    /\ MeasureNotFound
    /\ get_task_by_id(queue, HappyMeasure).sample_number = 1
    /\ get_task_by_id(queue, HappyMeasure).response = "Did not find the sample."
    /\ HappySlots = <<EmptySlot>>
    /\ 3 \in Ids(sample_history)

----------------------------------------------------------------------------
\* C23: from the collection of a device's init on (the device is registered
\* and has an occupancy list), the length of the occupancy list equals the
\* device's number_of_channels in every state, whatever is submitted,
\* dispatched, collected or reset afterwards.
C23_SlotCountIsChannelCount ==
    \A d \in DeviceNames :
        (devices[d].registered /\ channel_po[d].present)
            => Len(channel_po[d].slots) = devices[d].number_of_channels

----------------------------------------------------------------------------
\* a probe that meets the dispatch precondition: the device is registered,
\* the status request succeeded, the device is up or idle and, if the
\* sub-task names a channel, so is the channel
ProbePasses(probe) ==
    /\ probe.registered
    /\ probe.reply.request_status = "SUCCESS"
    /\ probe.reply.device_status \in Ready
    /\ probe.channel # NoChannel
          => /\ probe.channel < Len(probe.reply.channel_status)
             /\ probe.reply.channel_status[probe.channel + 1] \in Ready

\* every sub-task of the attempted task was probed and passed
AllPass(a) ==
    /\ Len(a.probes) = a.subtasks
    /\ \A k \in 1..Len(a.probes) : ProbePasses(a.probes[k])

\* C24: in a call of queue_execute_one_item a task that is no init is handed
\* to a device only if every one of its sub-tasks passed the pre-submission
\* check; a task with a sub-task that did not pass has no sub-task sent, stays
\* scheduled and is not made active, and the call dispatches no task of its
\* sample number.
C24_DispatchPrecondition ==
    [][Executed(ret')
         => \A k \in 1..Len(ret'.attempts) :
               LET a == ret'.attempts[k]
               IN  a.task_type # "init"
                     => /\ a.sent => AllPass(a)
                        /\ ~AllPass(a)
                              => /\ ~a.sent
                                 /\ ~a.ok
                                 /\ a.id \in Ids(queue')
                                 /\ a.id \notin Ids(active_tasks')
                                 /\ \A j \in 1..Len(ret'.attempts) :
                                       (j # k /\ ret'.attempts[j].sample_number
                                                    = a.sample_number)
                                          => ~ret'.attempts[j].ok]_vars

\* a call probed both sub-tasks of a transfer, the second one did not pass,
\* nothing of the transfer was sent, and the call went on to dispatch a task
\* of another sample
C24_Witness ==
    /\ Dispatched(ret)
    /\ \E a \in AttemptsOf(ret) :
          /\ a.task_type = "transfer"
          /\ Len(a.probes) = 2
          /\ ProbePasses(a.probes[1])
          /\ ~ProbePasses(a.probes[2])
          /\ ~a.sent
          /\ a.id \in Ids(queue)
          /\ a.sample_number \in ret.blocked

\* a call turned a task down because the status request failed
C24_WitnessRequest ==
    /\ Executed(ret)
    /\ \E a \in AttemptsOf(ret) :
          /\ a.task_type # "init"
          /\ a.probes # <<>>
          /\ a.probes[1].registered
          /\ a.probes[1].reply.request_status # "SUCCESS"
          /\ ~a.sent

\* a call handed a task that names a channel to its device after the device
\* and the channel had answered up or idle
C24_WitnessSent ==
    /\ Dispatched(ret)
    /\ \E a \in AttemptsOf(ret) :
          /\ a.task_type # "init"
          /\ a.sent
          /\ a.ok
          /\ a.probes[1].channel # NoChannel
          /\ AllPass(a)

----------------------------------------------------------------------------
\* the channels of a device whose slot holds a task of the sample
Holders(cpo, device, sample_number) ==
    {c \in 0..(Len(cpo[device].slots) - 1) :
        /\ cpo[device].slots[c + 1] # EmptySlot
        /\ cpo[device].slots[c + 1].sample_number = sample_number}

\* a scheduled measure that leaves the choice of the channel to the scheduler
AutoMeasure(t) ==
    /\ t.task_type = "measure"
    /\ Len(t.tasks) = 1
    /\ t.tasks[1].channel = NoChannel
    /\ ~t.tasks[1].non_channel_storage
    /\ channel_po[t.tasks[1].device].present

\* the task as a call left it, in the scheduled or in the active store
Left(id) ==
    IF id \in Ids(active_tasks') THEN get_task_by_id(active_tasks', id)
    ELSE get_task_by_id(queue', id)

\* C25: a measure without channel and without non_channel_storage that
\* reaches pre-processing gets the channel of a slot that holds its sample,
\* among several such slots the one whose occupant has the greatest priority
\* value; when no slot holds the sample it is rejected and stays scheduled.
C25_HighestPriorityOccupant ==
    [][Executed(ret')
         => \A a \in AttemptsOf(ret') :
               LET t == get_task_by_id(queue, a.id)
                   slots == channel_po[t.tasks[1].device].slots
                   holders == Holders(channel_po, t.tasks[1].device, t.sample_number)
                   c == Left(a.id).tasks[1].channel
               IN  (AutoMeasure(t) /\ AllPass(a))
                      => IF holders = {}
                         THEN /\ ~a.ok
                              /\ a.response = "Did not find the sample."
                              /\ a.id \in Ids(queue')
                         ELSE /\ c \in holders
                              /\ \A d \in holders :
                                    slots[d + 1].priority <= slots[c + 1].priority]_vars

----------------------------------------------------------------------------
\* a scheduled measure with a preset channel on an initialized device
PinnedMeasure(t) ==
    /\ t.task_type = "measure"
    /\ Len(t.tasks) = 1
    /\ t.tasks[1].channel # NoChannel
    /\ ~t.tasks[1].non_channel_storage
    /\ devices[t.tasks[1].device].registered
    /\ channel_po[t.tasks[1].device].present

\* the channel is a slot of the device, empty or held by the task's sample
Admissible(t) ==
    LET slots == channel_po[t.tasks[1].device].slots
        c == t.tasks[1].channel
    IN  /\ 0 <= c
        /\ c < Len(slots)
        /\ \/ slots[c + 1] = EmptySlot
           \/ slots[c + 1].sample_number = t.sample_number

\* the responses with which pre_process_measure admits a task, and the one of
\* the interference check that follows an admission
AdmittedResponses == {"Success.", "Success. Created sample.", "Waiting for ongoing task."}

\* C26: a measure with a preset channel on an initialized device is admitted
\* by pre-processing iff the channel is in range and its slot is empty or
\* holds the same sample; otherwise the attempt ends in a rejection (not
\* sent, the task scheduled, the sample blocked) and never in an exception
\* that leaves the dispatch cycle.
C26_PinnedMeasureAdmission ==
    [][Executed(ret')
         => \A a \in AttemptsOf(ret') :
               LET t == get_task_by_id(queue, a.id)
               IN  PinnedMeasure(t)
                      => /\ AllPass(a)
                            => (a.response \in AdmittedResponses <=> Admissible(t))
                         /\ ~Admissible(t)
                               => /\ ~a.exc
                                  /\ ~a.ok
                                  /\ ~a.sent
                                  /\ a.id \in Ids(queue')
                                  /\ a.sample_number \in ret'.blocked]_vars

----------------------------------------------------------------------------
\* the channels of a device that no active task names and, unless the device
\* is passive, whose slot is empty
FreeChannels(device) ==
    {c \in 0..(devices[device].number_of_channels - 1) :
        /\ \A t \in Rows(active_tasks) : <<device, c>> \notin Channels(t)
        /\ \/ devices[device].passive
           \/ ~channel_po[device].present
           \/ /\ c < Len(channel_po[device].slots)
              /\ channel_po[device].slots[c + 1] = EmptySlot}

\* a scheduled prepare that leaves the choice of the channel to the scheduler
AutoPrepare(t) ==
    /\ t.task_type = "prepare"
    /\ Len(t.tasks) = 1
    /\ t.tasks[1].channel = NoChannel
    /\ devices[t.tasks[1].device].registered
    /\ channel_po[t.tasks[1].device].present

\* C29: a prepare without channel that reaches pre-processing gets the
\* lowest-numbered free channel of its device; when no channel is free the
\* selection fails and the task is not dispatched.
C29_LowestFreeChannel ==
    [][Executed(ret')
         => \A a \in AttemptsOf(ret') :
               LET t == get_task_by_id(queue, a.id)
                   free == FreeChannels(t.tasks[1].device)
               IN  (AutoPrepare(t) /\ AllPass(a))
                      => IF free = {}
                         THEN /\ ~a.ok
                              /\ ~a.sent
                              /\ a.response = "No free channels available."
                              /\ a.id \in Ids(queue')
                              /\ a.id \notin Ids(active_tasks')
                         ELSE Left(a.id).tasks[1].channel = LowestChannel(free)]_vars

----------------------------------------------------------------------------
(* pre_process_transfer as a function of the scheduler: the registry and   *)
(* the occupancy tables are drawn from bounded sets and the function is    *)
(* applied once to a transfer.                                             *)

\* what a slot of an occupancy table may hold: nothing, a task of sample 1
\* or a task of sample 2
Occupants ==
    {EmptySlot,
     [id |-> 1, sample_number |-> 1, priority |-> -101],
     [id |-> 2, sample_number |-> 2, priority |-> -102]}

\* the slots of a device of two channels
AdmissionChannels == 2

Tables == [1..AdmissionChannels -> Occupants]

\* a device of the registry: unknown, or a liquid handler with its passive
\* attribute either way
Registered(passive) ==
    [Device("lh", TRUE, TRUE) EXCEPT !.number_of_channels = AdmissionChannels,
                                     !.passive = passive]

\* the occupancy list of a device: missing until its init is collected
Occupancies == {NoChannelPo} \cup {[present |-> TRUE, slots |-> t] : t \in Tables}

\* the transfers handed to pre_process_transfer: two or three sub-tasks, each
\* on either device, each without a channel or with a channel (2 is beyond
\* the devices' range)
PresetChannels == {NoChannel, 0, 1, 2}

Transfers ==
    {Task(9, "transfer", 0, n, <<TaskData(d1, c1), TaskData(d2, c2)>>)
        : n \in {1, 2}, d1 \in DeviceNames, c1 \in {NoChannel, 0},
          d2 \in DeviceNames, c2 \in PresetChannels}
    \cup
    {Task(9, "transfer", 0, 1, <<TaskData("lh1", 0), TaskData("qcmd1", c2),
                                 TaskData(d3, c3)>>)
        : c2 \in {NoChannel, 1}, d3 \in DeviceNames, c3 \in {NoChannel, 1}}

InitAdmission ==
    /\ scn = "admission"
    /\ queue = <<>>
    /\ active_tasks = <<>>
    /\ sample_history = <<>>
    /\ sample_id_to_number = <<>>
    /\ \E p1 \in BOOLEAN, p2 \in BOOLEAN :
          devices = [d \in DeviceNames |-> Registered(IF d = "lh1" THEN p1 ELSE p2)]
    /\ channel_po \in [DeviceNames -> Occupancies]
    /\ paused = TRUE
    /\ submitted = <<>>
    /\ clock = 0
    /\ phase = "update"
    /\ drv = Idle
    /\ resets = 0
    /\ startups = 0
    /\ ret = Result("init", TRUE, "", 0, {}, <<>>)

\* one call of pre_process_transfer
Admit ==
    /\ ret.op = "init"
    /\ \E task \in Transfers :
          LET h == pre_process_transfer(Scheduler, task)
              p == [Processed(h.ok, [h.task EXCEPT !.response = h.resp], h.st, h.exc,
                              FALSE) EXCEPT !.probes = <<>>]
          IN  /\ Becomes(h.st)
              /\ ret' = [Result("pre_process_transfer", h.ok,
                                IF h.exc THEN "exception" ELSE "", task.id, {},
                                <<Attempt(task, p)>>) EXCEPT !.request = task]
    /\ UNCHANGED <<sample_id_to_number, paused, scn, submitted, clock, phase, drv,
                   resets, startups>>

NextAdmission == Admit

SpecAdmission == InitAdmission /\ [][NextAdmission]_vars

AdmitStep == ret'.op = "pre_process_transfer"

\* the scheduler with the occupancy lists of the passive devices emptied
Blanked ==
    [Scheduler EXCEPT !.channel_po =
        [d \in DeviceNames |->
            IF devices[d].passive /\ channel_po[d].present
            THEN [channel_po[d] EXCEPT !.slots = [c \in DOMAIN @ |-> EmptySlot]]
            ELSE channel_po[d]]]

\* sub-task k names a channel of a device that is not passive, and the slot
\* of that channel holds a task
TargetOccupied(task, k) ==
    LET s == task.tasks[k]
        cpo == channel_po[s.device]
    IN  /\ s.channel # NoChannel
        /\ ~devices[s.device].passive
        /\ cpo.present
        /\ s.channel < Len(cpo.slots)
        /\ cpo.slots[s.channel + 1] # EmptySlot

\* C27: pre_process_transfer rejects a transfer whose first sub-task is on a
\* passive device; it does not admit a transfer with a second or later
\* sub-task that names a channel of a non-passive device whose slot is
\* occupied; and what
\* the slots of a passive device hold has no influence on its outcome (the
\* flag, the response and the channels of the returned task are those of the
\* same call with the passive devices' slots empty).
C27_TransferAdmission ==
    [][AdmitStep =>
         LET task == ret'.request
             a == ret'.attempts[1]
             h == pre_process_transfer(Scheduler, task)
             b == pre_process_transfer(Blanked, task)
         IN  /\ a.ok = h.ok /\ a.response = h.resp /\ a.exc = h.exc
             /\ devices[task.tasks[1].device].passive => ~a.ok /\ ~a.exc
             /\ \A k \in 2..Len(task.tasks) : TargetOccupied(task, k) => ~a.ok
             /\ b.ok = h.ok /\ b.resp = h.resp /\ b.exc = h.exc /\ b.task = h.task]_vars

\* a transfer from a non-passive source to a named channel of a passive
\* device whose slot holds a task of another sample was admitted
C27_Witness ==
    /\ ret.op = "pre_process_transfer"
    /\ ret.success
    /\ LET s == ret.request.tasks[2]
       IN  /\ devices[s.device].passive
           /\ s.channel \in {0, 1}
           /\ channel_po[s.device].present
           /\ channel_po[s.device].slots[s.channel + 1] # EmptySlot
           /\ channel_po[s.device].slots[s.channel + 1].sample_number
                  # ret.request.sample_number

\* a transfer whose source device is passive was rejected for that reason
C27_WitnessSource ==
    /\ ret.op = "pre_process_transfer"
    /\ ~ret.success
    /\ devices[ret.request.tasks[1].device].passive
    /\ ret.attempts[1].response = "Passive device cannot initiate transfer."

\* a transfer to an occupied slot of a non-passive device was rejected for
\* that reason
C27_WitnessOccupied ==
    /\ ret.op = "pre_process_transfer"
    /\ ~ret.success
    /\ ~devices[ret.request.tasks[2].device].passive
    /\ ret.attempts[1].response = "Device channel not empty."

----------------------------------------------------------------------------
(* The sample search of a measure and of the source of a transfer *)

\* a measure and a transfer of a sample on a device, neither with a channel
ProbeMeasure(device, sample_number) ==
    Task(0, "measure", 0, sample_number, <<TaskData(device, NoChannel)>>)

ProbeTransfer(device, sample_number) ==
    Task(0, "transfer", 0, sample_number, <<TaskData(device, NoChannel)>>)

\* what pre-processing made of the first sub-task: admitted or not, raised
\* or not, and the channel it selected
AutoSelected(h) ==
    [ok |-> h.ok, exc |-> h.exc,
     channel |-> IF h.ok THEN h.task.tasks[1].channel ELSE NoChannel]

\* C28: in every state, for every initialised device and every sample
\* number, pre_process_transfer selects for a first sub-task without channel
\* the channel that pre_process_measure selects for a measure without
\* channel, and the two reject in the same states.
C28_SourceSelectionAsMeasure ==
    \A d \in DeviceNames, n \in SampleNumbers \ {0} :
        channel_po[d].present =>
            AutoSelected(pre_process_transfer(Scheduler, ProbeTransfer(d, n)))
                = AutoSelected(pre_process_measure(Scheduler, ProbeMeasure(d, n)))

----------------------------------------------------------------------------
(* find_free_channels as a function of the scheduler: the channel mode of  *)
(* the device, its occupancy list and the tasks of the history and the     *)
(* active store are drawn from bounded sets, and the function is applied   *)
(* once through pre_process_prepare.                                       *)

\* a task of a sample on a channel of lh1, as the stores keep it
Kept(id, task_type, sample_number, channel) ==
    [Simple(id, task_type, 0, sample_number, channel) EXCEPT !.priority = -100 - id]

\* the history store: nothing, or prepares of sample 1 and 2
Histories ==
    {<<>>,
     <<Kept(1, "prepare", 1, 0)>>,
     <<Kept(3, "prepare", 1, 1)>>,
     <<Kept(1, "prepare", 1, 0), Kept(3, "prepare", 1, 1)>>,
     <<Kept(2, "prepare", 2, 0)>>,
     <<Kept(1, "prepare", 1, 0), Kept(2, "prepare", 2, 0)>>}

\* the active store: nothing, or a measurement going on on channel 1
Actives ==
    {<<>>, <<Kept(4, "measure", 2, 1)>>, <<Kept(4, "measure", 1, 1)>>}

InitSelection ==
    /\ scn = "admission"
    /\ queue = <<>>
    /\ active_tasks \in Actives
    /\ sample_history \in Histories
    /\ sample_id_to_number = <<>>
    /\ \E mode \in ChannelModes :
          devices = [d \in DeviceNames |->
                        IF d = "lh1"
                        THEN [Registered(FALSE) EXCEPT !.channel_mode = mode]
                        ELSE NoDevice]
    /\ \E t \in Tables :
          channel_po = [d \in DeviceNames |->
                           IF d = "lh1" THEN [present |-> TRUE, slots |-> t]
                           ELSE NoChannelPo]
    /\ paused = TRUE
    /\ submitted = <<>>
    /\ clock = 0
    /\ phase = "update"
    /\ drv = Idle
    /\ resets = 0
    /\ startups = 0
    /\ ret = Result("init", TRUE, "", 0, {}, <<>>)

\* the store locks a call of find_free_channels leaves held.  Its first
\* query with a sample number is sample_history.find_channels, which takes
\* the lock of the store and raises in cursor.execute before it reaches
\* lock.release()
LocksLeft(raised) == IF raised THEN {"sample_history"} ELSE {}

\* the driver thread after a handler that raised
Held(locks) == [pc |-> "raised", holds |-> locks]

\* the locks of the stores that are held while no store operation runs
HeldLocks == IF drv.pc = "raised" THEN drv.holds ELSE {}

\* one call of pre_process_prepare for a prepare without channel; the task
\* object is the caller's, so the request carries the channel afterwards
Select ==
    /\ ret.op = "init"
    /\ \E sample_number \in {1, 2} :
          LET task == Simple(9, "prepare", 0, sample_number, NoChannel)
              h == pre_process_prepare(Scheduler, task)
              p == Processed(h.ok, [h.task EXCEPT !.response = h.resp], h.st, h.exc,
                             FALSE)
          IN  /\ Becomes(h.st)
              /\ ret' = [Result("pre_process_prepare", h.ok,
                                IF h.exc THEN "exception" ELSE "", task.id, {},
                                <<Attempt(task, p)>>) EXCEPT !.request = h.task]
              /\ drv' = IF h.exc THEN Held(LocksLeft(h.exc)) ELSE Idle
    /\ UNCHANGED <<sample_id_to_number, paused, scn, submitted, clock, phase,
                   resets, startups>>

\* server.get_task_status of a request thread after the selection: it looks
\* the task up in the three stores, and each lookup first takes the lock of
\* its store
get_task_status ==
    /\ ret.op = "pre_process_prepare"
    /\ HeldLocks = {}
    /\ \E task_id \in {1, 9} :
          ret' = [Result("get_task_status",
                         task_id \in Ids(queue) \cup Ids(active_tasks)
                                               \cup Ids(sample_history),
                         "", task_id, {}, <<>>) EXCEPT !.request = ret.request]
    /\ UNCHANGED <<queue, active_tasks, sample_history, sample_id_to_number, devices,
                   channel_po, paused, scn, submitted, clock, phase, drv, resets,
                   startups>>

NextSelection == Select \/ get_task_status

SpecSelection == InitSelection /\ [][NextSelection]_vars

SelectStep == ret'.op = "pre_process_prepare"

\* the channels a sample has used on a device according to the history and
\* the active store
HistoryChannels(sample_number, device) ==
    UNION {{t.tasks[k].channel : k \in {j \in 1..Len(t.tasks) :
                                         /\ t.tasks[j].device = device
                                         /\ t.tasks[j].channel # NoChannel}}
           : t \in {u \in Rows(sample_history) \cup Rows(active_tasks) :
                       u.sample_number = sample_number}}

\* C30: on a device whose channel_mode is 'reuse', a selection fails exactly
\* when no channel is free; otherwise it gives the sub-task a free channel
\* the sample has used before on the device if there is one, and the lowest
\* free channel if there is none.
C30_ReuseSelection ==
    [][SelectStep /\ devices["lh1"].channel_mode = "reuse" =>
         LET free == get_channel_occupancy(Scheduler, "lh1")
             reusable == HistoryChannels(ret'.request.sample_number, "lh1") \cap free
             channel == ret'.request.tasks[1].channel
         IN  /\ ret'.end # "exception"
             /\ ret'.success <=> free # {}
             /\ ret'.success =>
                   IF reusable # {} THEN channel \in reusable
                   ELSE channel = LowestChannel(free)]_vars

----------------------------------------------------------------------------
(* Completion marks and collection *)

\* a status request of check_task that shows the sub-task complete: the
\* request succeeded and the channel of the sub-task, or the device for a
\* sub-task without channel, is idle or up
PollPasses(probe) ==
    /\ probe.reply.request_status = "SUCCESS"
    /\ IF probe.channel = NoChannel
       THEN probe.reply.device_status \in Ready
       ELSE /\ probe.channel < Len(probe.reply.channel_status)
            /\ probe.reply.channel_status[probe.channel + 1] \in Ready

\* the call of update_active_tasks that ends with this step saw sub-task k of
\* the task complete
SeenComplete(id, k) ==
    \E a \in AttemptsOf(ret') :
        /\ a.id = id
        /\ \E i \in 1..Len(a.probes) : a.probes[i].k = k /\ PollPasses(a.probes[i].probe)

\* the tasks a step moves from the active store to the history
Collected ==
    {t \in Rows(active_tasks) :
        t.id \in Ids(sample_history') /\ t.id \notin Ids(sample_history)}

\* the tasks a step puts into the active store
MadeActive == {t \in Rows(active_tasks') : t.id \notin Ids(active_tasks)}

\* C31: a task enters the active store without a completion mark on any
\* sub-task, and it moves from the active store to the history only if each
\* of its sub-tasks is seen complete by the status request of that very poll
\* or carries a mark (which an earlier poll since the dispatch has made): so
\* every sub-task of a collected task was seen complete by a poll after the
\* task's most recent dispatch.
C31_CompletionSeenAfterDispatch ==
    [][/\ DispatchStep => \A t \in MadeActive :
                              \A k \in 1..Len(t.tasks) : ~t.tasks[k].done
       /\ UpdateStep => \A t \in Collected :
                            \A k \in 1..Len(t.tasks) :
                                t.tasks[k].done \/ SeenComplete(t.id, k)]_vars

\* a resubmitted task was collected by a poll that made no status request
\* for it
C31_StaleCollected ==
    /\ ret.op = "update_active_tasks"
    /\ \E a \in AttemptsOf(ret) :
          /\ a.id \in Resubmitted
          /\ a.id \in Ids(sample_history)
          /\ a.ok
          /\ a.probes = <<>>

----------------------------------------------------------------------------
(* The occupancy table when a transfer is collected *)

\* the row of a task in the history after the step
Filed(id) == CHOOSE t \in Rows(sample_history') : t.id = id

\* the slots of all devices as (device, channel) pairs
AllSlots ==
    {<<d, c>> : d \in DeviceNames, c \in 0..8}
        \cap {<<d, c>> \in DeviceNames \X (0..8) :
                 channel_po[d].present /\ c < Len(channel_po[d].slots)}

SlotBefore(dc) == channel_po[dc[1]].slots[dc[2] + 1]

SlotAfter(dc) == channel_po'[dc[1]].slots[dc[2] + 1]

\* the source and the target slot of a transfer, if it names them
SourceSlots(t) ==
    IF t.tasks[1].channel # NoChannel
    THEN {<<t.tasks[1].device, t.tasks[1].channel>>} ELSE {}

TargetSlots(t) ==
    LET last == t.tasks[Len(t.tasks)]
    IN  IF last.channel # NoChannel THEN {<<last.device, last.channel>>} ELSE {}

\* the step collects this transfer and no other task
CollectsTransfer(t) ==
    /\ UpdateStep
    /\ Collected = {t}
    /\ t.task_type = "transfer"
    /\ \A d \in DeviceNames : Len(channel_po'[d].slots) = Len(channel_po[d].slots)

\* C32 as stated: collecting a transfer empties the source slot and appends
\* its occupant's id to the task_history, makes the transfer the occupant of
\* the target slot, and leaves every other slot as it was.
C32_TransferFrame ==
    [][\A t \in Rows(active_tasks) : CollectsTransfer(t) =>
          /\ \A src \in SourceSlots(t) :
                /\ SlotAfter(src) = EmptySlot
                /\ SlotBefore(src) # EmptySlot
                      => Filed(t.id).task_history
                             = Append(t.task_history, SlotBefore(src).id)
          /\ \A tgt \in TargetSlots(t) : SlotAfter(tgt).id = t.id
          /\ \A dc \in AllSlots \ (SourceSlots(t) \cup TargetSlots(t)) :
                SlotAfter(dc) = SlotBefore(dc)]_vars

\* C32, amended: the source slot is emptied first and the target slot is
\* written afterwards, so a source slot that is also the target slot ends up
\* holding the transfer; the task_history grows by the id of the source
\* slot's occupant and by nothing else.
C32_TransferFrameInOrder ==
    [][\A t \in Rows(active_tasks) : CollectsTransfer(t) =>
          /\ \A src \in SourceSlots(t) \ TargetSlots(t) : SlotAfter(src) = EmptySlot
          /\ Filed(t.id).task_history
                = IF \E src \in SourceSlots(t) : SlotBefore(src) # EmptySlot
                  THEN Append(t.task_history,
                              SlotBefore(<<t.tasks[1].device, t.tasks[1].channel>>).id)
                  ELSE t.task_history
          /\ \A tgt \in TargetSlots(t) :
                /\ SlotAfter(tgt).id = t.id
                /\ SlotAfter(tgt).sample_number = t.sample_number
          /\ \A dc \in AllSlots \ (SourceSlots(t) \cup TargetSlots(t)) :
                SlotAfter(dc) = SlotBefore(dc)]_vars

\* a transfer of three sub-tasks with channels was collected: its source
\* slot is empty, its target slot holds it, the slot of its intermediate
\* sub-task is as empty as before, and its task_history names the prepare
C32_Witness ==
    /\ ret.op = "update_active_tasks"
    /\ scn = "moves"
    /\ 4 \in Ids(sample_history)
    /\ 5 \notin Ids(sample_history)
    /\ channel_po["lh1"].slots[1] = EmptySlot
    /\ channel_po["lh1"].slots[2].id = 4
    /\ channel_po["qcmd1"].slots[2] = EmptySlot
    /\ \E t \in Rows(sample_history) : t.id = 4 /\ t.task_history = <<3>>

\* a transfer of one sub-task was collected: its slot holds it
C32_WitnessSameSlot ==
    /\ ret.op = "update_active_tasks"
    /\ scn = "moves"
    /\ 5 \in Ids(sample_history)
    /\ channel_po["lh1"].slots[2].id = 5

----------------------------------------------------------------------------
(* Measurements on non-channel storage *)

\* a measure whose sub-task names non_channel_storage and no channel
NonChannelMeasure(t) ==
    /\ t.task_type = "measure"
    /\ Len(t.tasks) = 1
    /\ t.tasks[1].non_channel_storage
    /\ t.tasks[1].channel = NoChannel

\* the responses of a task that pre-processing accepted
PassedPreProcessing == {"Success.", "Waiting for ongoing task."}

\* C33: a measure on non-channel storage that passes the pre-submission
\* check is accepted by pre-processing; and a poll of the active store that
\* holds such a measure does not end with an exception, and when it sees the
\* device idle or up it moves the measure from the active store to the
\* history and changes no slot of the occupancy table.
C33_NonChannelMeasureCollected ==
    [][/\ DispatchStep =>
            \A t \in Rows(queue) : NonChannelMeasure(t) =>
                \A a \in AttemptsOf(ret') :
                    a.id = t.id /\ AllPass(a) /\ ~a.exc
                        => a.response \in PassedPreProcessing
       /\ UpdateStep =>
            \A t \in Rows(active_tasks) : NonChannelMeasure(t) =>
                /\ ret'.end # "exception"
                /\ SeenComplete(t.id, 1) =>
                      /\ t.id \in Ids(sample_history')
                      /\ t.id \notin Ids(active_tasks')
                      /\ Collected = {t} => channel_po' = channel_po]_vars

----------------------------------------------------------------------------
(* The tasks the occupancy table refers to *)

\* the ids of the tasks that occupy a slot
Occupying ==
    UNION {{channel_po[d].slots[c].id : c \in {e \in 1..Len(channel_po[d].slots) :
                                                  channel_po[d].slots[e] # EmptySlot}}
           : d \in DeviceNames}

\* C34: in every state, every task that a slot of the occupancy table refers
\* to is in the active store or in the history.
C34_OccupantsActiveOrHistory ==
    Occupying \subseteq Ids(active_tasks) \cup Ids(sample_history)

\* a measure that failed at the instrument is still scheduled and occupies
\* the slot it claimed in pre-processing
C34_ScheduledOccupant ==
    /\ Executed(ret)
    /\ \E a \in AttemptsOf(ret) :
          /\ a.task_type = "measure"
          /\ a.sent
          /\ ~a.ok
          /\ a.id \in Occupying
          /\ a.id \in Ids(queue)
          /\ a.id \notin Ids(active_tasks) \cup Ids(sample_history)

----------------------------------------------------------------------------
(* What one call of queue_execute_one_item moves *)

\* the tasks that are active after the step and were not before
MovedToActive == Ids(active_tasks') \ Ids(active_tasks)

\* C35: a call of queue_execute_one_item moves at most one task, and only
\* from the scheduled store to the active store; it returns true iff it moved
\* exactly one; and when it does not return true (a call that raises
\* included) the scheduled and the active store hold the same tasks as
\* before.
C35_AtMostOneDispatch ==
    [][DispatchStep =>
         /\ Cardinality(MovedToActive) <= 1
         /\ MovedToActive \subseteq Ids(queue)
         /\ Ids(queue') = Ids(queue) \ MovedToActive
         /\ Ids(active_tasks') = Ids(active_tasks) \cup MovedToActive
         /\ ret'.success <=> Cardinality(MovedToActive) = 1
         /\ ~ret'.success => /\ Ids(queue') = Ids(queue)
                             /\ Ids(active_tasks') = Ids(active_tasks)]_vars

\* a call returned true after it had tried a task in vain: the task it
\* dispatched is active and no longer scheduled, the other one is scheduled
C35_Witness ==
    /\ Dispatched(ret)
    /\ Len(ret.attempts) >= 2
    /\ ret.task \in Ids(active_tasks)
    /\ ret.task \notin Ids(queue)
    /\ ret.attempts[1].id \in Ids(queue)
    /\ ret.attempts[1].id \notin Ids(active_tasks)

\* a call returned false after it had tried two tasks, both still scheduled
C35_WitnessNone ==
    /\ Executed(ret)
    /\ ~ret.success
    /\ ret.end = "exhausted"
    /\ Len(ret.attempts) >= 2
    /\ \A a \in AttemptsOf(ret) : a.id \in Ids(queue) /\ a.id \notin Ids(active_tasks)

----------------------------------------------------------------------------
(* The candidates of one call of queue_execute_one_item *)

\* the candidates the call handed to process_task without success
Failed(r) == {k \in 1..Len(r.attempts) : ~r.attempts[k].ok /\ ~r.attempts[k].exc}

\* C36: in one call of queue_execute_one_item every candidate that fails adds
\* its sample number to blocked_samples, the number was not in the list
\* before, and no later candidate has a blocked number: the candidates of a
\* call are different tasks of different sample numbers, blocked_samples ends
\* as the set of the failed candidates' numbers, and the call examines no
\* more candidates than the scheduled store has sample numbers.
C36_NoCandidateTwice ==
    [][DispatchStep =>
         LET tried == ret'.attempts
         IN  /\ \A j \in 1..Len(tried) : \A k \in 1..Len(tried) :
                   j # k => /\ tried[j].id # tried[k].id
                            /\ tried[j].sample_number # tried[k].sample_number
             /\ ret'.blocked = {tried[k].sample_number : k \in Failed(ret')}
             /\ Cardinality(ret'.blocked) = Cardinality(Failed(ret'))
             /\ \A k \in 1..Len(tried) : tried[k].id \in Ids(queue)
             /\ Len(tried) <= Cardinality({t.sample_number : t \in Rows(queue)})]_vars

\* a call tried candidates of two samples in vain and passed over a further
\* scheduled task of a blocked sample
C36_Witness ==
    /\ Executed(ret)
    /\ Cardinality(ret.blocked) >= 2
    /\ \E t \in Rows(queue) :
          /\ t.sample_number \in ret.blocked
          /\ t.task_type \notin {"init", "shutdown"}
          /\ \A a \in AttemptsOf(ret) : a.id # t.id


----------------------------------------------------------------------------
(* Store locks *)

\* C37: every task-store operation releases the lock of its store on every
\* exit path, also where its query fails, so that no lock of a store is
\* held once the operation is over and later operations on the store by the
\* driver loop or a request thread can go on.
C37_LocksReleased == HeldLocks = {}


----------------------------------------------------------------------------
(* Slots and samples *)

\* C38: on a non-passive device a slot that holds a task of one sample is
\* never overwritten by a task of another sample: a step writes a task to
\* a slot only if the slot was empty or held a task of the same sample,
\* also when the task is a prepare submitted with a preset channel.
C38_NoForeignOverwrite ==
    [][\A dc \in AllSlots :
          /\ ~devices[dc[1]].passive
          /\ channel_po'[dc[1]].present
          /\ dc[2] < Len(channel_po'[dc[1]].slots)
          /\ SlotBefore(dc) # EmptySlot
          /\ SlotAfter(dc) # EmptySlot
          => SlotAfter(dc).sample_number = SlotBefore(dc).sample_number]_vars


----------------------------------------------------------------------------
(* Failed attempts and channels *)

\* the channel fields of the sub-tasks of an entry of the scheduled store
ChannelsOf(store, id) ==
    LET task == get_task_by_id(store, id)
    IN  [k \in 1..Len(task.tasks) |-> task.tasks[k].channel]

\* the tasks a call tried without success and left in the scheduled store
FailedIds(r) == {a.id : a \in {b \in AttemptsOf(r) : ~b.ok /\ ~b.exc}}

\* C39: a dispatch attempt that does not succeed changes only metadata of
\* the scheduled task: the channel fields of the sub-tasks of its entry in
\* the scheduled store are the same after the call as before, so a channel
\* selected automatically in the failed attempt is not kept as preset.
C39_FailedAttemptKeepsChannels ==
    [][DispatchStep =>
          \A id \in FailedIds(ret') \cap Ids(queue) \cap Ids(queue') :
              ChannelsOf(queue', id) = ChannelsOf(queue, id)]_vars


----------------------------------------------------------------------------
(* get_and_remove_by_priority as a function of the store: the rows of the  *)
(* scheduled store are drawn from bounded sets and the method is applied   *)
(* once with a list of task types, a remove flag and a list of blocked     *)
(* sample numbers.                                                         *)

MaxRows == 3

RowTypes == {"init", "prepare"}

RowSamples == {1, 2}

RowPriorities == {-2, -1}

\* row k of a store: task k with the drawn type, sample number and priority
Stored(k, c) == [Simple(k, c[1], 0, c[2], NoChannel) EXCEPT !.priority = c[3]]

Stores ==
    UNION {{[k \in 1..n |-> Stored(k, f[k])] :
               f \in [1..n -> RowTypes \X RowSamples \X RowPriorities]}
           : n \in 0..MaxRows}

\* the lists of task types of the callers: the bands of the driver loop
TypeLists == {task_priority[i] : i \in 1..Len(task_priority)}

InitRetrieval ==
    /\ scn = "admission"
    /\ queue \in Stores
    /\ active_tasks = <<>>
    /\ sample_history = <<>>
    /\ sample_id_to_number = <<>>
    /\ devices = [d \in DeviceNames |-> NoDevice]
    /\ channel_po = [d \in DeviceNames |-> NoChannelPo]
    /\ paused = TRUE
    /\ submitted = <<>>
    /\ clock = 0
    /\ phase = "update"
    /\ drv = Idle
    /\ resets = 0
    /\ startups = 0
    /\ ret = Result("init", TRUE, "", 0, {}, <<>>)

\* the method with its remove flag: the possible [task, store] results; the
\* row found is deleted by its task id after the query
get_and_remove(store, task_type, remove_flag, blocked_samples) ==
    LET found == get_and_remove_by_priority(store, task_type, blocked_samples)
    IN  IF found = {} THEN {[task |-> NoTask, store |-> store]}
        ELSE {[task |-> t,
               store |-> IF remove_flag THEN remove(store, t.id) ELSE store]
              : t \in found}

\* one call of the method on the scheduled store
Retrieval(task_type, remove_flag, blocked_samples) ==
    /\ ret.op = "init"
    /\ \E r \in get_and_remove(queue, task_type, remove_flag, blocked_samples) :
          /\ queue' = r.store
          /\ ret' = [Result("get_and_remove_by_priority", r.task # NoTask, "",
                            r.task.id, blocked_samples, <<>>)
                        EXCEPT !.request = r.task,
                               !.flags = IF remove_flag THEN {"remove"} ELSE {}]
    /\ UNCHANGED <<active_tasks, sample_history, sample_id_to_number, devices,
                   channel_po, paused, scn, submitted, clock, phase, drv, resets,
                   startups>>

Retrieve ==
    \E task_type \in TypeLists, remove_flag \in BOOLEAN,
       blocked_samples \in SUBSET RowSamples :
        Retrieval(task_type, remove_flag, blocked_samples)

NextRetrieval == Retrieve

SpecRetrieval == InitRetrieval /\ [][NextRetrieval]_vars

\* the rows of the store a call may return
Matching(task_type, blocked_samples) ==
    {t \in Rows(queue) : /\ t.task_type \in task_type
                         /\ t.sample_number \notin blocked_samples}

\* the store after the call is the store before it without row k
WithoutRow(k) ==
    /\ Len(queue') = Len(queue) - 1
    /\ \A j \in 1..Len(queue') : queue'[j] = IF j < k THEN queue[j] ELSE queue[j + 1]

\* C40: get_and_remove_by_priority returns a task of the greatest priority
\* among the stored tasks whose type is in the list and whose sample number
\* is not blocked, and none when there is no such task; with remove false
\* the store is unchanged, with remove true exactly the returned task is
\* removed.
C40_RetrievalByPriority ==
    [][\A task_type \in TypeLists, remove_flag \in BOOLEAN,
          blocked_samples \in SUBSET RowSamples :
           Retrieval(task_type, remove_flag, blocked_samples) =>
              LET match == Matching(task_type, blocked_samples)
                  task == ret'.request
              IN  IF match = {}
                  THEN task = NoTask /\ queue' = queue
                  ELSE /\ task \in match
                       /\ \A u \in match : u.priority <= task.priority
                       /\ IF remove_flag
                          THEN \E k \in 1..Len(queue) : queue[k] = task /\ WithoutRow(k)
                          ELSE queue' = queue]_vars

\* a call removed the task it returned and left a task of greater priority
\* whose sample number was blocked
C40_Witness ==
    /\ ret.op = "get_and_remove_by_priority"
    /\ "remove" \in ret.flags
    /\ ret.request # NoTask
    /\ ret.request \notin Rows(queue)
    /\ \E t \in Rows(queue) : /\ t.sample_number \in ret.blocked
                              /\ t.priority > ret.request.priority

\* a call found no task in a store that is not empty
C40_WitnessNone ==
    /\ ret.op = "get_and_remove_by_priority"
    /\ ret.request = NoTask
    /\ queue # <<>>
    /\ ret.blocked = {}

\* a call without removal returned one of two tasks of the same priority
C40_WitnessTie ==
    /\ ret.op = "get_and_remove_by_priority"
    /\ ret.flags = {}
    /\ \E t \in Rows(queue) : /\ t.id # ret.request.id
                              /\ t.priority = ret.request.priority
                              /\ t.task_type = ret.request.task_type
                              /\ t.sample_number = ret.request.sample_number

====
